---- MODULE Spec2Model ----
(***************************************************************************)
(* The request gate of the daydreams news agent (the hardened agent.ts):   *)
(* the in-memory fixed-window rate limiter, the payment classification,    *)
(* origin validation, the size limit and the CORS stage, as the middleware *)
(* chain registered in beforeMount runs them.                              *)
(*                                                                         *)
(* Text is modelled as a sequence of tokens, each token standing for a run *)
(* of characters; the texts used are cut so that one text is a character   *)
(* prefix (substring) of another exactly when its token sequence is a      *)
(* prefix (contiguous subsequence) of the other's.  <<>> is the empty      *)
(* string.  An optional value is {} (undefined) or {v}.                    *)
(*                                                                         *)
(* The second half is the handler of the entrypoint latest-daydreams-news: *)
(* the limit it derives from its input, the endpoint check, the fetch, the *)
(* normalization of the payload, the articles text, the fallback result    *)
(* and the generated one, and the sanitized failure.  An invocation takes  *)
(* one step from each await to the next.  Where the code counts            *)
(* characters (truncate) a text has one token per character.               *)
(*                                                                         *)
(* Last comes the start-up of index.ts: createServerWithFallback, one step *)
(* per call of Bun.serve.                                                  *)
(***************************************************************************)
EXTENDS Integers, Sequences, FiniteSets, TLC

VARIABLES
    now,            \* Date.now(), in ms
    env,            \* process.env: ALLOWED_ORIGINS, FACILITATOR_URL
    rateLimitMap,   \* the records of the client keys the model follows
    bulk,           \* the records of all other clients: their number, their resetAt
    reqs,           \* the requests in flight, one per slot, with their position in the chain
    ghost,          \* per key, the window as the specification counts it
    cfg,            \* process.env.DAYDREAMS_NEWS_URL and axClient.ax, fixed at start-up
    calls,          \* the invocations of the entrypoint handler, one per slot
    usage,          \* the usage log of daydreamsNewsFlow, shared by all invocations
    boot            \* createServerWithFallback: its locals, and how it ended

vars == <<now, env, rateLimitMap, bulk, reqs, ghost, cfg, calls, usage, boot>>

\* the state of the request gate, of the entrypoint handler, and of start-up
gateVars == <<now, env, rateLimitMap, bulk, reqs, ghost>>
handlerVars == <<cfg, calls, usage>>
serverVars == <<boot>>

\* ------------------------------------------------------------------ bounds
MaxTime == 120001
MaxOver == 1
MaxInFlight == 2
StartCount == 99
MaxEntries == 3
MaxBlanks == 3
MaxTail == 4
MaxLog == 2
MaxRenewed == 2

\* ------------------------------------------------------- program constants
MAX_REQUEST_SIZE == 1024 * 1024
RATE_LIMIT_WINDOW_MS == 60000
RATE_LIMIT_MAX_REQUESTS == 100
CLEANUP_THRESHOLD == 10000
REQUEST_TIMEOUT_MS == 30000
PORT_SCAN_LIMIT == 20

\* ------------------------------------------------------------------- text
NoValue == {}
Some(v) == {v}
Value(opt) == CHOOSE v \in opt : TRUE

\* String.prototype.startsWith
startsWith(s, p) ==
    /\ Len(p) <= Len(s)
    /\ SubSeq(s, 1, Len(p)) = p

\* String.prototype.includes
includes(s, p) ==
    \E i \in 0..(Len(s) - Len(p)) : SubSeq(s, i + 1, i + Len(p)) = p

\* String.prototype.trim: blank tokens are dropped at both ends
RECURSIVE trimStart(_)
trimStart(s) ==
    IF s # <<>> /\ Head(s) = " " THEN trimStart(Tail(s)) ELSE s

RECURSIVE trimEnd(_)
trimEnd(s) ==
    IF s # <<>> /\ s[Len(s)] = " " THEN trimEnd(SubSeq(s, 1, Len(s) - 1)) ELSE s

trim(s) == trimEnd(trimStart(s))

\* Array.prototype.filter(Boolean) on an array of strings: "" is falsy
RECURSIVE filterBoolean(_)
filterBoolean(list) ==
    IF list = <<>> THEN <<>>
    ELSE IF Head(list) = <<>> THEN filterBoolean(Tail(list))
         ELSE <<Head(list)>> \o filterBoolean(Tail(list))

\* new URL(text): {} when the constructor throws, else the parsed protocol
Schemes == {"https:", "http:"}
ParseUrl(text) ==
    IF Len(text) >= 3 /\ text[1] \in Schemes /\ text[2] = "//"
    THEN Some([protocol |-> text[1]])
    ELSE NoValue

\* ---------------------------------------------------------- configuration
DefaultFacilitator == <<"https:", "//", "facilitator.daydreams.systems">>
GatewayOrigin == <<"https:", "//", "gateway.daydreams.systems">>
CustomFacilitator == <<"https:", "//", "pay.example.net">>
AppOrigin == <<"https:", "//", "app.example.com">>

\* process.env.ALLOWED_ORIGINS, already split at the commas
ALLOWED_ORIGINS ==
    IF env.ALLOWED_ORIGINS # NoValue /\ Value(env.ALLOWED_ORIGINS) # <<>>
    THEN filterBoolean([i \in DOMAIN Value(env.ALLOWED_ORIGINS) |->
                            trim(Value(env.ALLOWED_ORIGINS)[i])])
    ELSE <<>>

FACILITATOR_URL ==
    IF env.FACILITATOR_URL # NoValue THEN Value(env.FACILITATOR_URL)
    ELSE DefaultFacilitator

AllowListOnly == ALLOWED_ORIGINS

PAYMENT_GATEWAY_ORIGINS ==
    <<FACILITATOR_URL, DefaultFacilitator, GatewayOrigin>> \o ALLOWED_ORIGINS

Range(seq) == {seq[i] : i \in DOMAIN seq}

\* --------------------------------------------------------------- requests
\* the route of lines 405 and 411, "/entrypoints/:key/invoke"
MatchesInvokeRoute(path) ==
    /\ Len(path) = 4
    /\ path[1] = "/entrypoints" /\ path[2] = "/" /\ path[4] = "/invoke"
    /\ path[3] \notin {"/", "/entrypoints", "/invoke", "/docs", "-guide"}

EntrypointsMark == <<"/entrypoints">>

isPaymentRequest(req) ==
    LET path == req.path
        hasPaymentHeader == req.xPayment # NoValue \/ req.xPaymentResponse # NoValue
        isEntrypointRoute == includes(path, EntrypointsMark)
    IN  isEntrypointRoute \/ hasPaymentHeader

isValidOriginStrict(origin, isPayment) ==
    /\ origin # <<>>
    /\ \E allowed \in Range(PAYMENT_GATEWAY_ORIGINS) :
          origin = allowed \/ startsWith(origin, allowed)

isValidOrigin(origin, isPayment) ==
    IF isPayment /\ origin = <<>> THEN TRUE
    ELSE IF origin = <<>> THEN FALSE
    ELSE IF \E allowed \in Range(PAYMENT_GATEWAY_ORIGINS) :
                origin = allowed \/ startsWith(origin, allowed)
         THEN TRUE
    ELSE IF Len(ALLOWED_ORIGINS) = 0
         THEN LET url == ParseUrl(origin)
              IN  url # NoValue /\ Value(url).protocol = "https:"
    ELSE origin \in Range(ALLOWED_ORIGINS)


\* Content-Length texts and parseInt(text, 10)
Digits == <<"0", "1", "2", "3", "4", "5", "6", "7", "8", "9">>
IsDigit(tok) == \E i \in DOMAIN Digits : Digits[i] = tok
DigitValue(tok) == (CHOOSE i \in DOMAIN Digits : Digits[i] = tok) - 1

RECURSIVE LeadingDigits(_)
LeadingDigits(text) ==
    IF text # <<>> /\ IsDigit(Head(text))
    THEN <<Head(text)>> \o LeadingDigits(Tail(text))
    ELSE <<>>

RECURSIVE DecimalValue(_)
DecimalValue(digits) ==
    IF digits = <<>> THEN 0
    ELSE 10 * DecimalValue(SubSeq(digits, 1, Len(digits) - 1))
         + DigitValue(digits[Len(digits)])

\* {} is NaN
parseInt(text) ==
    LET t == trimStart(text)
        negative == t # <<>> /\ Head(t) = "-"
        unsigned == IF t # <<>> /\ Head(t) \in {"-", "+"} THEN Tail(t) ELSE t
        digits == LeadingDigits(unsigned)
    IN  IF digits = <<>> THEN NoValue
        ELSE Some(IF negative THEN 0 - DecimalValue(digits) ELSE DecimalValue(digits))

\* ----------------------------------------------------------- rate limiter
Keys == {"k1", "k2"}
Slots == 1..MaxInFlight

mapSize ==
    bulk.n + Cardinality({k \in Keys : rateLimitMap[k] # NoValue})

WindowExpired(record, t) == t > record.resetAt

QuotaReachedOffByOne(record) == record.count > RATE_LIMIT_MAX_REQUESTS

QuotaReached(record) == record.count >= RATE_LIMIT_MAX_REQUESTS

NewWindowFromZero(t) == [count |-> 0, resetAt |-> t + RATE_LIMIT_WINDOW_MS]

NewWindow(t) == [count |-> 1, resetAt |-> t + RATE_LIMIT_WINDOW_MS]

IncrementLost(record) == record

\* (a sliding window: every admitted request moves the reset time)
IncrementSliding(record) ==
    [count |-> record.count + 1, resetAt |-> now + RATE_LIMIT_WINDOW_MS]

Increment(record) == [record EXCEPT !.count = @ + 1]

\* the sweep of lines 193-200, over the followed keys and over the other clients
SweepAll(map, t) == [k \in Keys |-> NoValue]

SweepMap(map, t) ==
    [k \in Keys |->
        IF map[k] # NoValue /\ t > Value(map[k]).resetAt THEN NoValue ELSE map[k]]

SweepBulk(b, t) ==
    IF b.n > 0 /\ t > b.resetAt THEN [n |-> 0, resetAt |-> 0] ELSE b

\* checkRateLimit(key): its result and the table it leaves
checkRateLimit(key) ==
    LET record == rateLimitMap[key]
        sweep == mapSize > CLEANUP_THRESHOLD
        map1 == IF sweep THEN SweepMap(rateLimitMap, now) ELSE rateLimitMap
        bulk1 == IF sweep THEN SweepBulk(bulk, now) ELSE bulk
    IN  IF record = NoValue \/ WindowExpired(Value(record), now)
        THEN [ok |-> TRUE, bulk |-> bulk1,
              map |-> [map1 EXCEPT ![key] = Some(NewWindow(now))]]
        ELSE IF QuotaReached(Value(record))
        THEN [ok |-> FALSE, bulk |-> bulk1, map |-> map1]
        ELSE [ok |-> TRUE, bulk |-> bulk1,
              map |-> [map1 EXCEPT ![key] = Some(Increment(Value(record)))]]

\* ------------------------------------------------- the specification's window
\* An observer, not code.  The window of a key as the specification counts it: opened by the first
\* request that arrives when none is open, closed RATE_LIMIT_WINDOW_MS later;
\* seen counts the non-payment requests examined in it, admitted those let through.
\* gen tells a key's first window (1) from a later one (2); afterFull, that the
\* window before it had used up its quota.
NoWindow ==
    [open |-> FALSE, end |-> 0, seen |-> 0, admitted |-> 0, gen |-> 0,
     afterFull |-> FALSE]

WindowOpenAt(w, t) == w.open /\ t <= w.end

Observe(w, t, ok) ==
    IF WindowOpenAt(w, t)
    THEN [w EXCEPT !.seen = @ + 1, !.admitted = @ + (IF ok THEN 1 ELSE 0)]
    ELSE [open |-> TRUE, end |-> t + RATE_LIMIT_WINDOW_MS, seen |-> 1,
          admitted |-> IF ok THEN 1 ELSE 0,
          gen |-> IF w.gen < 2 THEN w.gen + 1 ELSE 2,
          afterFull |-> w.open /\ w.admitted >= RATE_LIMIT_MAX_REQUESTS]

\* ------------------------------------------------------------ the requests
RootPath == <<"/">>
InvokePath == <<"/entrypoints", "/", "latest-daydreams-news", "/invoke">>
GuidePath == <<"/docs", "/entrypoints", "-guide">>

PlainRequest(key) ==
    [key |-> key, path |-> RootPath, xPayment |-> NoValue,
     xPaymentResponse |-> NoValue, contentLength |-> NoValue,
     origin |-> <<>>, method |-> "GET"]

Idle == [pc |-> "idle", req |-> PlainRequest("k1"), status |-> 0,
         rl |-> "none", cors |-> "none"]

Pending(key) ==
    Cardinality({s \in Slots : /\ reqs[s].pc = "rateLimit"
                               /\ reqs[s].req.key = key
                               /\ ~isPaymentRequest(reqs[s].req)})

\* the environment sends at most MaxOver requests beyond the quota per window
MaySend(req) ==
    \/ isPaymentRequest(req)
    \/ ~WindowOpenAt(ghost[req.key], now)
    \/ ghost[req.key].seen + Pending(req.key) < RATE_LIMIT_MAX_REQUESTS + MaxOver

Arrive(s, req) ==
    /\ reqs[s].pc = "idle"
    /\ MaySend(req)
    /\ reqs' = [reqs EXCEPT ![s] = [Idle EXCEPT !.pc = "rateLimit", !.req = req]]
    /\ UNCHANGED <<now, env, rateLimitMap, bulk, ghost>>
    /\ UNCHANGED <<handlerVars, serverVars>>

\* (a middleware that answers and still calls the next one)
ReplyAndGoOn(slot, status) ==
    [slot EXCEPT !.status = status,
                 !.pc = IF @ = "rateLimit" THEN "sizeLimit"
                        ELSE IF @ = "sizeLimit" THEN "cors" ELSE "done"]

Reply(slot, status) == [slot EXCEPT !.pc = "done", !.status = status]

SkipRateLimitNever(req) == FALSE

\* the exemption of lines 341-342
SkipRateLimit(req) == isPaymentRequest(req)

\* app.use("*") of lines 340-349
RateLimitMiddleware(s) ==
    /\ reqs[s].pc = "rateLimit"
    /\ LET req == reqs[s].req IN
       IF ~SkipRateLimit(req)
       THEN LET res == checkRateLimit(req.key) IN
            /\ rateLimitMap' = res.map
            /\ bulk' = res.bulk
            /\ ghost' = [ghost EXCEPT ![req.key] = Observe(@, now, res.ok)]
            /\ reqs' = [reqs EXCEPT ![s] =
                  IF ~res.ok THEN Reply([@ EXCEPT !.rl = "rejected"], 429)
                  ELSE [@ EXCEPT !.pc = "sizeLimit", !.rl = "admitted"]]
       ELSE /\ reqs' = [reqs EXCEPT ![s] = [@ EXCEPT !.pc = "sizeLimit", !.rl = "exempt"]]
            /\ UNCHANGED <<rateLimitMap, bulk, ghost>>
    /\ UNCHANGED <<now, env>>
    /\ UNCHANGED <<handlerVars, serverVars>>

\* the test of lines 355-359
TooLargeInclusive(contentLength) ==
    /\ contentLength # NoValue
    /\ Value(contentLength) # <<>>
    /\ LET size == parseInt(Value(contentLength)) IN
       \/ size = NoValue
       \/ Value(size) < 0
       \/ Value(size) >= MAX_REQUEST_SIZE

TooLarge(contentLength) ==
    /\ contentLength # NoValue
    /\ Value(contentLength) # <<>>
    /\ LET size == parseInt(Value(contentLength)) IN
       \/ size = NoValue
       \/ Value(size) < 0
       \/ Value(size) > MAX_REQUEST_SIZE

\* app.use("*") of lines 353-362
SizeLimitMiddleware(s) ==
    /\ reqs[s].pc = "sizeLimit"
    /\ reqs' = [reqs EXCEPT ![s] =
          IF TooLarge(@.req.contentLength) THEN Reply(@, 413)
          ELSE [@ EXCEPT !.pc = "cors"]]
    /\ UNCHANGED <<now, env, rateLimitMap, bulk, ghost>>
    /\ UNCHANGED <<handlerVars, serverVars>>

PreflightSkipped(method) == 0

\* lines 393-395: an OPTIONS request is answered here; 0 stands for next()
PreflightResponse(method) == IF method = "OPTIONS" THEN 204 ELSE 0

\* app.use("*") of lines 365-398: the CORS headers it sets and how it answers
CorsOutcome(req) ==
    LET isPayment == isPaymentRequest(req)
        origin == req.origin
        method == req.method
    IN  IF isPayment /\ origin # <<>> /\ isValidOrigin(origin, TRUE)
        THEN [headers |-> "payment", status |-> PreflightResponse(method)]
        ELSE IF ~isPayment /\ origin # <<>>
        THEN IF isValidOrigin(origin, FALSE)
             THEN [headers |-> "strict", status |-> PreflightResponse(method)]
             ELSE IF method = "OPTIONS"
             THEN [headers |-> "denied", status |-> 403]
             ELSE [headers |-> "denied", status |-> PreflightResponse(method)]
        ELSE [headers |-> "unset", status |-> PreflightResponse(method)]

CorsMiddleware(s) ==
    /\ reqs[s].pc = "cors"
    /\ LET out == CorsOutcome(reqs[s].req) IN
       reqs' = [reqs EXCEPT ![s] =
          IF out.status # 0 THEN Reply([@ EXCEPT !.cors = out.headers], out.status)
          ELSE [@ EXCEPT !.pc = "routes", !.cors = out.headers]]
    /\ UNCHANGED <<now, env, rateLimitMap, bulk, ghost>>
    /\ UNCHANGED <<handlerVars, serverVars>>

\* the response has left, or next() has handed the request to the routes
Release(s) ==
    /\ reqs[s].pc \in {"done", "routes"}
    /\ reqs' = [reqs EXCEPT ![s] = Idle]
    /\ UNCHANGED <<now, env, rateLimitMap, bulk, ghost>>
    /\ UNCHANGED <<handlerVars, serverVars>>

TickSteps == {RATE_LIMIT_WINDOW_MS, RATE_LIMIT_WINDOW_MS + 1}

Tick ==
    /\ \E d \in TickSteps :
          /\ now + d <= MaxTime
          /\ now' = now + d
    /\ UNCHANGED <<env, rateLimitMap, bulk, reqs, ghost>>
    /\ UNCHANGED <<handlerVars, serverVars>>

Step ==
    \/ \E s \in Slots : RateLimitMiddleware(s)
    \/ \E s \in Slots : SizeLimitMiddleware(s)
    \/ \E s \in Slots : CorsMiddleware(s)
    \/ \E s \in Slots : Release(s)
    \/ Tick

\* ------------------------------------------- the entrypoint handler at rest
\* ctx.input?.limit as a JavaScript value: undefined, null, a number (finite
\* with its integer part and its tenths, NaN, or an infinity) or a string
Undefined == [type |-> "undefined", kind |-> "none", int |-> 0, tenths |-> 0, text |-> <<>>]
Null == [Undefined EXCEPT !.type = "null"]
Number(int, tenths) ==
    [Undefined EXCEPT !.type = "number", !.kind = "finite", !.int = int, !.tenths = tenths]
NaN == [Undefined EXCEPT !.type = "number", !.kind = "NaN"]
Infinity == [Undefined EXCEPT !.type = "number", !.kind = "Infinity"]
String(text) == [Undefined EXCEPT !.type = "string", !.text = text]

\* the body of the feed's response as far as the handler looks into it: its
\* type, its elements when it is an array, and its fields items, articles,
\* data and results, each absent ({}) or a value that is an array or not
Json(type) ==
    [type |-> type, elems |-> <<>>, items |-> NoValue, articles |-> NoValue,
     data |-> NoValue, results |-> NoValue]

\* what the handler caught: nothing, or the thrown value with its message;
\* stage names the await or the check that threw
NoError == [stage |-> "none", isError |-> FALSE, message |-> <<>>]
Error(stage, message) == [stage |-> stage, isError |-> TRUE, message |-> message]

\* the value the handler returns: output.summary, output.highlights,
\* output.sources and model
NoOutput == [summary |-> <<>>, highlights |-> <<>>, sources |-> <<>>, model |-> NoValue]

\* one invocation: where it is, its input, the limit it derived, the calls it
\* made to fetch and to daydreamsNewsFlow.forward, the time at which its
\* pending abort timer is due, the payload it read, the items it kept, the
\* articles text it built, the usage entries its own run of the flow logged,
\* and how it ended
NoCall ==
    [pc |-> "rest", input |-> Undefined, limit |-> 0, fetches |-> 0,
     forwards |-> 0, timer |-> NoValue, payload |-> Json("undefined"),
     items |-> <<>>, articles |-> <<>>, logged |-> <<>>,
     caught |-> NoError, thrown |-> <<>>, output |-> NoOutput]

DefaultCfg == [DAYDREAMS_NEWS_URL |-> NoValue, ax |-> NoValue]

\* createServerWithFallback: startPort, forcePort, the loop's attemptPort,
\* attemptsLeft and lastError (the error's code), the ports handed to
\* Bun.serve so far and the codes of the errors it threw, and the port
\* returned or the error thrown
Scan(startPort, forcePort) ==
    [phase |-> "loop", startPort |-> startPort, forcePort |-> forcePort,
     attemptPort |-> startPort,
     attemptsLeft |-> IF forcePort THEN 1 ELSE PORT_SCAN_LIMIT,
     lastError |-> NoValue, tried |-> <<>>, failed |-> <<>>,
     port |-> NoValue, thrown |-> NoValue]

\* the server is up on the default port, which was free at the first attempt
Listening ==
    [Scan(8787, FALSE) EXCEPT !.phase = "returned", !.tried = <<8787>>,
                              !.port = Some(8787)]

HandlerAtRest ==
    /\ cfg = DefaultCfg
    /\ calls = [h \in Slots |-> NoCall]
    /\ usage = <<>>
    /\ boot = Listening

\* ---------------------------------------------- one client, from a cold start
DefaultEnv == [ALLOWED_ORIGINS |-> NoValue, FACILITATOR_URL |-> NoValue]
NoBulk == [n |-> 0, resetAt |-> 0]

ColdRequests ==
    {PlainRequest("k1"), [PlainRequest("k1") EXCEPT !.path = InvokePath]}

Init ==
    /\ now = 0
    /\ env = DefaultEnv
    /\ rateLimitMap = [k \in Keys |-> NoValue]
    /\ bulk \in {NoBulk, [n |-> CLEANUP_THRESHOLD, resetAt |-> RATE_LIMIT_WINDOW_MS]}
    /\ reqs = [s \in Slots |-> Idle]
    /\ ghost = [k \in Keys |-> NoWindow]
    /\ HandlerAtRest

ArriveCold == \E req \in ColdRequests : Arrive(1, req)

Next == ArriveCold \/ Step

Spec == Init /\ [][Next]_vars


\* ------------------------------- two clients, concurrently, close to the quota
\* The table after StartCount requests of a key were admitted at time t; the
\* other clients' windows, when there are any, are still open then or end then,
\* so that no sweep has met an expired record yet.
WarmRecord(t) == [count |-> StartCount, resetAt |-> t + RATE_LIMIT_WINDOW_MS]
WarmWindow(t) ==
    [open |-> TRUE, end |-> t + RATE_LIMIT_WINDOW_MS, seen |-> StartCount,
     admitted |-> StartCount, gen |-> 1, afterFull |-> FALSE]

WarmTime == MaxTime - RATE_LIMIT_WINDOW_MS

ConcRequests ==
    UNION {{PlainRequest(k),
            [PlainRequest(k) EXCEPT !.path = InvokePath],
            [PlainRequest(k) EXCEPT !.xPayment = Some(<<"proof">>)]} : k \in Keys}

InitConc ==
    /\ now = WarmTime
    /\ env = DefaultEnv
    /\ rateLimitMap = [k \in Keys |-> Some(WarmRecord(now))]
    /\ bulk \in {NoBulk,
                 [n |-> CLEANUP_THRESHOLD, resetAt |-> now],
                 [n |-> CLEANUP_THRESHOLD, resetAt |-> now + RATE_LIMIT_WINDOW_MS]}
    /\ reqs = [s \in Slots |-> Idle]
    /\ ghost = [k \in Keys |-> WarmWindow(now)]
    /\ HandlerAtRest

ArriveConc == \E s \in Slots : \E req \in ConcRequests : Arrive(s, req)

NextConc == ArriveConc \/ Step

SpecConc == InitConc /\ [][NextConc]_vars

\* ------------------------- two clients whose windows end one after the other
\* The table after StartCount requests of k1 were admitted at time 0 and
\* StartCount requests of k2 at time 1, with or without 10000 other clients
\* that came at time 0: once k1's window is over, a request of either client
\* sweeps the table while k2's window is still open, and later when it is not.
SweepRequests == {PlainRequest(k) : k \in Keys}

InitSweep ==
    /\ now = 1
    /\ env = DefaultEnv
    /\ rateLimitMap = [k \in Keys |-> IF k = "k1" THEN Some(WarmRecord(0))
                                      ELSE Some(WarmRecord(1))]
    /\ bulk \in {NoBulk, [n |-> CLEANUP_THRESHOLD, resetAt |-> RATE_LIMIT_WINDOW_MS]}
    /\ reqs = [s \in Slots |-> Idle]
    /\ ghost = [k \in Keys |-> IF k = "k1" THEN WarmWindow(0) ELSE WarmWindow(1)]
    /\ HandlerAtRest

\* in a window that follows the first one the environment sends at most
\* MaxRenewed requests
MayRenew(req) ==
    \/ ghost[req.key].gen < 2
    \/ ~WindowOpenAt(ghost[req.key], now)
    \/ ghost[req.key].seen + Pending(req.key) < MaxRenewed

ArriveSweep ==
    \E s \in Slots : \E req \in SweepRequests : MayRenew(req) /\ Arrive(s, req)

NextSweep == ArriveSweep \/ Step

SpecSweep == InitSweep /\ [][NextSweep]_vars

\* --------------------------------- one client, every shape of request, any env
Blank == <<" ">>
EvilSuffix == <<".evil.example">>
PlainHttpOrigin == <<"http:", "//", "app.example.com">>
NotAUrl == <<"not-a-url">>

\* "1048576", "1048577", "-1", "abc"
ContentLengths ==
    {<<"1", "0", "4", "8", "5", "7", "6">>, <<"1", "0", "4", "8", "5", "7", "7">>,
     <<"-", "1">>, <<"abc">>}

Origins ==
    {<<>>, GatewayOrigin, GatewayOrigin \o EvilSuffix, CustomFacilitator,
     AppOrigin, AppOrigin \o EvilSuffix, PlainHttpOrigin, NotAUrl}

Methods == {"GET", "POST", "OPTIONS"}

GateRequests ==
    [key : {"k1"},
     path : {RootPath, InvokePath, GuidePath},
     xPayment : {NoValue, Some(<<"proof">>)},
     xPaymentResponse : {NoValue, Some(<<"receipt">>)},
     contentLength : {NoValue} \cup {Some(t) : t \in ContentLengths},
     origin : Origins,
     method : Methods]

\* ALLOWED_ORIGINS unset, or " https://app.example.com, "
Envs ==
    [ALLOWED_ORIGINS : {NoValue, Some(<<Blank \o AppOrigin, Blank>>)},
     FACILITATOR_URL : {NoValue, Some(CustomFacilitator)}]

InitGate ==
    /\ now = WarmTime
    /\ env \in Envs
    /\ rateLimitMap = [k \in Keys |-> IF k = "k1" THEN Some(WarmRecord(now)) ELSE NoValue]
    /\ bulk = NoBulk
    /\ reqs = [s \in Slots |-> Idle]
    /\ ghost = [k \in Keys |-> IF k = "k1" THEN WarmWindow(now) ELSE NoWindow]
    /\ HandlerAtRest

ArriveGate == \E req \in GateRequests : Arrive(1, req)

NextGate == ArriveGate \/ Step

SpecGate == InitGate /\ [][NextGate]_vars


\* =================================================== the entrypoint handler
\* ------------------------------------------------------------- validateUrl
DEFAULT_NEWS_URL == <<"https:", "//", "daydreams.systems", "/", "api/news/latest">>

\* Host names are written with one token per character where the code tests
\* a prefix of them (the digits and dots of an address).
\* The text between "//" and the next "/"
HostText(text) ==
    LET rest == SubSeq(text, 3, Len(text))
        slashes == {i \in DOMAIN rest : rest[i] = "/"}
        end == IF slashes = {} THEN Len(rest)
               ELSE (CHOOSE i \in slashes : \A j \in slashes : i <= j) - 1
    IN  SubSeq(rest, 1, end)

\* URL.hostname is canonical: lower case, an IPv4 address in four decimal parts
CanonicalHost(host) ==
    IF host = <<"LOCALHOST">> THEN <<"localhost">>
    ELSE IF host = <<"1", "2", "7", ".", "1">>
         THEN <<"1", "2", "7", ".", "0", ".", "0", ".", "1">>
    ELSE host

\* new URL(url): {} when the constructor throws
URL(url) ==
    IF ParseUrl(url) = NoValue THEN NoValue
    ELSE Some([protocol |-> Value(ParseUrl(url)).protocol,
               hostname |-> CanonicalHost(HostText(url))])

Decimal(n) == IF n < 10 THEN <<Digits[n + 1]>>
              ELSE <<Digits[(n \div 10) + 1], Digits[(n % 10) + 1]>>

\* "192.168.", "10.", "172.16." ... "172.31." of lines 282-299
PrivatePrefixes ==
    {<<"1", "9", "2", ".", "1", "6", "8", ".">>, <<"1", "0", ".">>}
    \cup {<<"1", "7", "2", ".">> \o Decimal(n) \o <<".">> : n \in 16..31}

LiteralHosts ==
    {<<"localhost">>,
     <<"1", "2", "7", ".", "0", ".", "0", ".", "1">>,
     <<"0", ".", "0", ".", "0", ".", "0">>}

validateUrlSchemeOnly(url) ==
    URL(url) # NoValue /\ Value(URL(url)).protocol = "https:"

validateUrl(url) ==
    LET parsed == URL(url)
    IN  IF parsed = NoValue THEN FALSE
        ELSE IF Value(parsed).protocol # "https:" THEN FALSE
        ELSE IF \/ Value(parsed).hostname \in LiteralHosts
                \/ \E prefix \in PrivatePrefixes :
                       startsWith(Value(parsed).hostname, prefix)
             THEN FALSE
        ELSE TRUE

\* ------------------------------------------------------------ sanitizeError
ExternalServiceUnavailable == <<"External service unavailable">>
InvalidResponseFormat == <<"Invalid response format">>
InternalServerError == <<"Internal server error">>

sanitizeError(error) ==
    IF error.isError
    THEN IF includes(error.message, <<"fetch">>) THEN ExternalServiceUnavailable
         ELSE IF \/ includes(error.message, <<"parse">>)
                 \/ includes(error.message, <<"JSON">>)
              THEN InvalidResponseFormat
         ELSE InternalServerError
    ELSE InternalServerError

\* (a handler that tried again instead of failing)
ThrowAndRetry(call, error) ==
    [call EXCEPT !.pc = "awaitFetch", !.fetches = @ + 1]

\* the catch block of lines 545-548: throw new Error(sanitizeError(error))
Throw(call, error) ==
    [call EXCEPT !.pc = "thrown", !.caught = error, !.thrown = sanitizeError(error)]

\* -------------------------------------------------------------- the limit
MathMin(a, b) == IF a <= b THEN a ELSE b
MathMax(a, b) == IF a >= b THEN a ELSE b

clamp(value, min, max) == MathMin(MathMax(value, min), max)

isInteger(value) == value.kind = "finite" /\ value.tenths = 0

LimitAlwaysDefault(limitInput) ==
    IF /\ limitInput.type = "number" /\ isInteger(limitInput)
       /\ limitInput.int >= 1 /\ limitInput.int <= 10
    THEN limitInput.int
    ELSE 5

\* lines 501-512
LimitOf(limitInput) ==
    IF limitInput.type \notin {"undefined", "null"}
    THEN IF /\ limitInput.type = "number"
            /\ isInteger(limitInput)
            /\ limitInput.kind # "NaN"
            /\ limitInput.kind = "finite"
         THEN clamp(limitInput.int, 1, 10)
         ELSE 5
    ELSE 5

\* ------------------------------------------- the handler up to await fetch
Endpoint == IF cfg.DAYDREAMS_NEWS_URL # NoValue THEN Value(cfg.DAYDREAMS_NEWS_URL)
            ELSE DEFAULT_NEWS_URL

\* setTimeout(() => controller.abort(), REQUEST_TIMEOUT_MS) and clearTimeout
setTimeout(call) == [call EXCEPT !.timer = Some(now + REQUEST_TIMEOUT_MS)]
clearTimeout(call) == [call EXCEPT !.timer = NoValue]

\* handler is called with ctx.input.limit = limitInput: it derives the limit,
\* enters fetchLatestDaydreamsNews, validates the endpoint, arms the abort
\* timer and calls fetch
Invoke(h, limitInput) ==
    /\ calls[h].pc = "rest"
    /\ LET call == [NoCall EXCEPT !.input = limitInput, !.limit = LimitOf(limitInput)]
       IN  calls' = [calls EXCEPT ![h] =
               IF ~validateUrl(Endpoint)
               THEN Throw(call, Error("validateUrl", <<"Invalid endpoint URL">>))
               ELSE [setTimeout(call) EXCEPT !.pc = "awaitFetch", !.fetches = @ + 1]]
    /\ UNCHANGED <<cfg, usage>>
    /\ UNCHANGED <<gateVars, serverVars>>

\* ----------------------------------------------------- await fetch settles
\* fetch rejects (with an AbortError when the timer aborted it) or resolves
\* with a response, whose ok flag is all the code reads of its status; either
\* way the timer is cleared before anything else is done (lines 582, 585)
FetchRejects(name, message) == [settled |-> "rejected", name |-> name,
                                message |-> message, ok |-> FALSE, status |-> 0]
FetchResolves(status) == [settled |-> "resolved", name |-> "", message |-> <<>>,
                          ok |-> status >= 200 /\ status <= 299, status |-> status]

FetchSettles(h, outcome) ==
    /\ calls[h].pc = "awaitFetch"
    /\ LET call == clearTimeout(calls[h])
       IN  calls' = [calls EXCEPT ![h] =
               IF outcome.settled = "rejected"
               THEN IF outcome.name = "AbortError"
                    THEN Throw(call, Error("fetch", <<"Request timeout">>))
                    ELSE Throw(call, Error("fetch", ExternalServiceUnavailable))
               ELSE IF ~outcome.ok
                    THEN Throw(call, Error("status", <<"External service error">>))
               ELSE [call EXCEPT !.pc = "awaitJson"]]
    /\ UNCHANGED <<cfg, usage>>
    /\ UNCHANGED <<gateVars, serverVars>>

\* the abort timer of an invocation is due: its callback aborts the
\* controller, and the pending fetch rejects with an AbortError
Aborted == FetchRejects("AbortError", <<"The operation was aborted">>)

TimeoutFires(h) ==
    /\ calls[h].timer # NoValue
    /\ now >= Value(calls[h].timer)
    /\ FetchSettles(h, Aborted)

\* -------------------------------------------------------- normalization
\* a raw entry of the feed: its type, and for an object the fields the code
\* reads, each a JavaScript value (Undefined when the field is missing)
RawFields ==
    {"title", "headline", "name", "summary", "description", "body",
     "contentSnippet", "url", "link", "permalink", "publishedAt",
     "published_at", "date", "timestamp", "source", "feed", "channel", "author"}

Raw(type) == [type |-> type, fields |-> [f \in RawFields |-> Undefined]]

With(raw, field, value) == [raw EXCEPT !.fields[field] = value]

Falsy(raw) == raw.type \in {"null", "undefined"}
TypeOf(raw) == IF raw.type = "null" THEN "object" ELSE raw.type

takeStringUntrimmed(value) ==
    IF value.type = "string" /\ trim(value.text) # <<>>
    THEN Some(value.text)
    ELSE NoValue

takeString(value) ==
    IF value.type = "string" /\ trim(value.text) # <<>>
    THEN Some(trim(value.text))
    ELSE NoValue

\* a ?? b ?? c, and Array.prototype.find over candidates that are null unless
\* they are arrays: the first defined element, {} when there is none
RECURSIVE FirstDefined(_)
FirstDefined(list) ==
    IF list = <<>> THEN NoValue
    ELSE IF Head(list) # NoValue THEN Head(list)
    ELSE FirstDefined(Tail(list))

\* Date.parse(text): {} is NaN, else the day since the epoch and the ms in it
DateParse(text) ==
    IF text \in {<<"2024-01-02">>, <<"2024-01-02", "T", "00:00:00.000Z">>}
    THEN Some([day |-> 19724, ms |-> 0])
    ELSE IF text \in {<<"Tue, 02 Jan 2024 10:30:00 GMT">>,
                      <<"2024-01-02", "T", "10:30:00.000Z">>}
    THEN Some([day |-> 19724, ms |-> 37800000])
    ELSE NoValue

\* Date.prototype.toISOString
toISOString(timestamp) ==
    IF timestamp = [day |-> 19724, ms |-> 0]
    THEN <<"2024-01-02", "T", "00:00:00.000Z">>
    ELSE <<"2024-01-02", "T", "10:30:00.000Z">>

isValidDate(value) == DateParse(value) # NoValue

\* lines 661-664
PublishedAt(publishedRaw) ==
    IF publishedRaw # NoValue /\ isValidDate(Value(publishedRaw))
    THEN Some(toISOString(Value(DateParse(Value(publishedRaw)))))
    ELSE NoValue

\* {} is null
normalizeDaydreamsNewsItem(raw) ==
    IF Falsy(raw) \/ TypeOf(raw) # "object" THEN NoValue
    ELSE
    LET record == raw.fields
        title == FirstDefined(<<takeString(record.title), takeString(record.headline),
                                takeString(record.name)>>)
        summary == FirstDefined(<<takeString(record.summary),
                                  takeString(record.description),
                                  takeString(record.body),
                                  takeString(record.contentSnippet)>>)
        url == FirstDefined(<<takeString(record.url), takeString(record.link),
                              takeString(record.permalink)>>)
        publishedRaw == FirstDefined(<<takeString(record.publishedAt),
                                       takeString(record.published_at),
                                       takeString(record.date),
                                       takeString(record.timestamp)>>)
        source == FirstDefined(<<takeString(record.source), takeString(record.feed),
                                 takeString(record.channel), takeString(record.author)>>)
    IN  IF title = NoValue THEN NoValue
        ELSE Some([title |-> Value(title), summary |-> summary, url |-> url,
                   publishedAt |-> PublishedAt(publishedRaw), source |-> source])

\* a field of the payload that holds an array, or some other value
JsonArray(elems) == [type |-> "array", elems |-> elems]
JsonOther(type) == [type |-> type, elems |-> <<>>]

\* Array.isArray(x) ? x : null, for the payload and for one of its fields
ArrayOrNull(opt) ==
    IF opt # NoValue /\ Value(opt).type = "array" THEN Some(Value(opt).elems)
    ELSE NoValue

CollectionsArticlesFirst(payload) ==
    FirstDefined(<<ArrayOrNull(Some(payload)), ArrayOrNull(payload.articles),
                   ArrayOrNull(payload.items), ArrayOrNull(payload.data),
                   ArrayOrNull(payload.results)>>)

\* lines 605-619
Collections(payload) ==
    FirstDefined(<<ArrayOrNull(Some(payload)), ArrayOrNull(payload.items),
                   ArrayOrNull(payload.articles), ArrayOrNull(payload.data),
                   ArrayOrNull(payload.results)>>)

sliceWhole(list, end) == list

\* Array.prototype.slice(0, end), end >= 0
slice(list, end) == SubSeq(list, 1, MathMin(end, Len(list)))

\* .map(normalizeDaydreamsNewsItem).filter(Boolean)
RECURSIVE MapNormalize(_)
MapNormalize(rawItems) ==
    IF rawItems = <<>> THEN <<>>
    ELSE LET item == normalizeDaydreamsNewsItem(Head(rawItems))
         IN  (IF item = NoValue THEN <<>> ELSE <<Value(item)>>)
             \o MapNormalize(Tail(rawItems))

NormalizedThenCut(payload, limit) ==
    LET collections == Collections(payload)
    IN  slice(MapNormalize(IF collections # NoValue THEN Value(collections) ELSE <<>>),
              limit)

\* lines 621-624
Normalized(payload, limit) ==
    LET collections == Collections(payload)
        rawItems == slice(IF collections # NoValue THEN Value(collections) ELSE <<>>,
                          limit)
    IN  MapNormalize(rawItems)

\* ------------------------------------------------------------ the summary
\* String.prototype.length: the characters of all the tokens
RECURSIVE length(_)
length(text) ==
    IF text = <<>> THEN 0
    ELSE IF Len(text) = 1 THEN Len(text[1])
    ELSE length(SubSeq(text, 1, Len(text) \div 2))
         + length(SubSeq(text, (Len(text) \div 2) + 1, Len(text)))

\* how many of the first tokens of text lie within its first end characters
RECURSIVE Fitting(_, _)
Fitting(text, end) ==
    IF text = <<>> THEN 0
    ELSE IF Len(text) = 1 THEN (IF Len(text[1]) <= end THEN 1 ELSE 0)
    ELSE LET half == Len(text) \div 2
             left == SubSeq(text, 1, half)
         IN  IF length(left) <= end
             THEN half + Fitting(SubSeq(text, half + 1, Len(text)), end - length(left))
             ELSE Fitting(left, end)

\* String.prototype.slice(0, end) of a text whose tokens up to the cut are
\* single characters
sliceText(text, end) == SubSeq(text, 1, Fitting(text, end))

Ellipsis == <<".", ".", ".">>

truncateUntrimmed(value, maxLength) ==
    IF length(value) <= maxLength THEN value
    ELSE sliceText(value, MathMax(0, maxLength - 3)) \o Ellipsis

truncate(value, maxLength) ==
    IF length(value) <= maxLength THEN value
    ELSE trimEnd(sliceText(value, MathMax(0, maxLength - 3))) \o Ellipsis

\* Array.prototype.join
RECURSIVE join(_, _)
join(list, separator) ==
    IF list = <<>> THEN <<>>
    ELSE IF Len(list) = 1 THEN Head(list)
    ELSE Head(list) \o separator \o join(Tail(list), separator)

\* the lines of one item, lines 689-702
Parts(item, index) ==
    <<Decimal(index + 1) \o <<". ">> \o item.title>>
    \o (IF item.source # NoValue THEN <<<<"Source: ">> \o Value(item.source)>> ELSE <<>>)
    \o (IF item.publishedAt # NoValue
        THEN <<<<"Published: ">> \o Value(item.publishedAt)>> ELSE <<>>)
    \o (IF item.summary # NoValue
        THEN <<<<"Summary: ">> \o truncate(Value(item.summary), 600)>> ELSE <<>>)
    \o (IF item.url # NoValue THEN <<<<"Link: ">> \o Value(item.url)>> ELSE <<>>)

buildArticlesContext(items) ==
    join([i \in DOMAIN items |-> join(Parts(items[i], i - 1), <<"\n">>)], <<"\n", "\n">>)

Titles(items) == [i \in DOMAIN items |-> items[i].title]

buildFallbackSummary(items) ==
    <<"Latest Daydreams updates include: ">> \o join(Titles(items), <<"; ">>) \o <<".">>

\* ------------------------------------------- await response.json() settles
JsonRejects == [settled |-> "rejected", payload |-> Json("undefined")]
JsonResolves(payload) == [settled |-> "resolved", payload |-> payload]

FallbackModel == "axllm-fallback"

FallbackCapped(newsItems) ==
    [summary |-> buildFallbackSummary(newsItems),
     highlights |-> slice(Titles(newsItems), 5),
     sources |-> newsItems, model |-> Some(FallbackModel)]

\* lines 516-527
Fallback(newsItems) ==
    [summary |-> buildFallbackSummary(newsItems), highlights |-> Titles(newsItems),
     sources |-> newsItems, model |-> Some(FallbackModel)]

\* the body is read; the rest of fetchLatestDaydreamsNews and the handler up
\* to the return of the fallback or to await daydreamsNewsFlow.forward
JsonSettles(h, outcome) ==
    /\ calls[h].pc = "awaitJson"
    /\ calls' = [calls EXCEPT ![h] =
           IF outcome.settled = "rejected"
           THEN Throw(@, Error("json", InvalidResponseFormat))
           ELSE LET normalized == Normalized(outcome.payload, @.limit)
                    read == [@ EXCEPT !.payload = outcome.payload]
                IN  IF Len(normalized) = 0
                    THEN Throw(read, Error("normalize", <<"No news entries available">>))
                    ELSE IF cfg.ax = NoValue
                    THEN [read EXCEPT !.pc = "returned", !.items = normalized,
                                      !.articles = buildArticlesContext(normalized),
                                      !.output = Fallback(normalized)]
                    ELSE [read EXCEPT !.pc = "awaitForward", !.items = normalized,
                                      !.articles = buildArticlesContext(normalized),
                                      !.forwards = @ + 1]]
    /\ UNCHANGED <<cfg, usage>>
    /\ UNCHANGED <<gateVars, serverVars>>

\* ------------------------------------ await daydreamsNewsFlow.forward settles
\* forward throws a value, or resolves with a result whose summary may be
\* undefined and whose highlights may be an array or not, after logging the
\* usage of the model it called
ForwardRejects(error) ==
    [settled |-> "rejected", error |-> error, summary |-> NoValue,
     highlights |-> JsonOther("undefined"), model |-> NoValue]
ForwardResolves(summary, highlights, model) ==
    [settled |-> "resolved", error |-> NoError, summary |-> summary,
     highlights |-> highlights, model |-> model]

\* line 538
Highlights(highlights) ==
    IF highlights.type = "array" THEN highlights.elems ELSE <<>>

\* Array.prototype.at(-1)?.model
LastModel(log) == IF log = <<>> THEN NoValue ELSE Some(log[Len(log)].model)

\* the usage of one call to the model, as the flow logs it
UsageEntry(model) == [model |-> model]

\* while forward runs, its summarizer node has had its answer and the flow
\* has logged the usage of that call in its log, which is the one log of the
\* module's one daydreamsNewsFlow
ForwardLogs(h, model) ==
    /\ calls[h].pc = "awaitForward"
    /\ calls[h].logged = <<>>
    /\ Len(usage) < MaxLog
    /\ usage' = Append(usage, UsageEntry(model))
    /\ calls' = [calls EXCEPT ![h].logged = Append(@, UsageEntry(model))]
    /\ UNCHANGED cfg
    /\ UNCHANGED <<gateVars, serverVars>>

\* forward settles: rejected, it leaves the log as it is; resolved, its last
\* node's usage (when the provider reported one) is logged, and the handler
\* goes on at once to read the last entry of the log and to reset the log
ForwardSettles(h, outcome) ==
    /\ calls[h].pc = "awaitForward"
    /\ IF outcome.settled = "rejected"
       THEN /\ calls' = [calls EXCEPT ![h] = Throw(@, outcome.error)]
            /\ UNCHANGED usage
       ELSE LET logged == IF outcome.model # NoValue
                          THEN Append(usage, UsageEntry(Value(outcome.model)))
                          ELSE usage
                call == IF outcome.model # NoValue
                        THEN [calls[h] EXCEPT
                                 !.logged = Append(@, UsageEntry(Value(outcome.model)))]
                        ELSE calls[h]
            IN  /\ calls' = [calls EXCEPT ![h] =
                       [call EXCEPT !.pc = "returned",
                                    !.output =
                                        [summary |-> IF outcome.summary # NoValue
                                                     THEN Value(outcome.summary)
                                                     ELSE <<>>,
                                         highlights |-> Highlights(outcome.highlights),
                                         sources |-> call.items,
                                         model |-> LastModel(logged)]]]
                /\ usage' = <<>>
    /\ UNCHANGED cfg
    /\ UNCHANGED <<gateVars, serverVars>>

\* the framework has delivered the result or the failure to the caller
Rest(h) ==
    /\ calls[h].pc \in {"returned", "thrown"}
    /\ calls' = [calls EXCEPT ![h] = NoCall]
    /\ UNCHANGED <<cfg, usage>>
    /\ UNCHANGED <<gateVars, serverVars>>

\* --------------------------------------------- the handler, end to end
\* the limits a caller sends: absent, null, integers inside and outside 1..10,
\* 2.5, NaN, Infinity and the string "5"
LimitInputs ==
    {Undefined, Null, Number(0, 0), Number(1, 0), Number(3, 0), Number(5, 0),
     Number(10, 0), Number(11, 0), Number(0 - 3, 0), Number(2, 5), NaN, Infinity,
     String(<<"5">>)}

HttpsTo(host) == <<"https:", "//">> \o host \o <<"/", "feed">>

\* values of DAYDREAMS_NEWS_URL
Endpoints ==
    {HttpsTo(<<"news.example.org">>),
     <<"http:", "//", "daydreams.systems", "/", "api/news/latest">>,
     <<"feed">>,
     HttpsTo(<<"localhost">>),
     HttpsTo(<<"LOCALHOST">>),
     HttpsTo(<<"1", "2", "7", ".", "0", ".", "0", ".", "1">>),
     HttpsTo(<<"0", ".", "0", ".", "0", ".", "0">>),
     HttpsTo(<<"1", "0", ".", "0", ".", "0", ".", "5">>),
     HttpsTo(<<"1", "7", "2", ".", "1", "6", ".", "0", ".", "1">>),
     HttpsTo(<<"1", "7", "2", ".", "3", "1", ".", "2", "5", "5", ".", "9">>),
     HttpsTo(<<"1", "7", "2", ".", "3", "2", ".", "0", ".", "1">>),
     HttpsTo(<<"1", "9", "2", ".", "1", "6", "8", ".", "1", ".", "1">>),
     HttpsTo(<<"1", "0", "0", ".", "6", "4", ".", "0", ".", "1">>)}

HandlerCfgs ==
    [DAYDREAMS_NEWS_URL : {NoValue} \cup {Some(e) : e \in Endpoints},
     ax : {NoValue, Some("llm")}]

FetchOutcomes ==
    {FetchRejects("AbortError", <<"This operation was aborted">>),
     FetchRejects("TypeError", <<"fetch", " failed">>),
     FetchResolves(200), FetchResolves(503)}

\* entries of a feed
Entry(title) == With(Raw("object"), "title", String(title))
Untitled == With(Raw("object"), "summary", String(<<"no title here">>))

\* the first n of eleven well-formed entries
Feed(n) ==
    [i \in 1..n |->
        With(With(Entry(<<"Release ">> \o Decimal(i)), "url",
                  String(<<"https:", "//", "daydreams.systems", "/", "news/">> \o Decimal(i))),
             "date", String(<<"2024-01-02">>))]

HandlerPayloads ==
    {[Json("array") EXCEPT !.elems = Feed(5)],
     [Json("object") EXCEPT !.items = Some(JsonArray(Feed(11)))],
     [Json("object") EXCEPT !.articles = Some(JsonArray(<<Untitled, Entry(<<"Second">>)>>))],
     [Json("object") EXCEPT !.data = Some(JsonArray(<<Untitled>>))],
     [Json("array") EXCEPT !.elems = <<>>],
     [Json("object") EXCEPT !.results = Some(JsonOther("string"))],
     Json("null")}

JsonOutcomes == {JsonRejects} \cup {JsonResolves(p) : p \in HandlerPayloads}

\* n highlights as the model wrote them
Bullets(n) == [i \in 1..n |-> <<"Highlight ">> \o Decimal(i)]

ForwardOutcomes ==
    {ForwardRejects(Error("forward", <<"fetch", " failed">>)),
     ForwardRejects(Error("forward", <<"socket hang up">>)),
     ForwardRejects(Error("forward", <<"Unexpected token < in ", "JSON">>)),
     ForwardRejects([stage |-> "forward", isError |-> FALSE,
                     message |-> <<"fetch", " failed">>])}
    \cup {ForwardResolves(summary, highlights, model) :
            summary \in {NoValue, Some(<<"Two sentences.">>)},
            highlights \in {JsonArray(Bullets(n)) : n \in {0, 3, 5, 6}}
                           \cup {JsonOther("undefined")},
            model \in {NoValue, Some("gpt-5")}}

InitHandler ==
    /\ now = 0
    /\ env = DefaultEnv
    /\ rateLimitMap = [k \in Keys |-> NoValue]
    /\ bulk = NoBulk
    /\ reqs = [s \in Slots |-> Idle]
    /\ ghost = [k \in Keys |-> NoWindow]
    /\ cfg \in HandlerCfgs
    /\ calls = [h \in Slots |-> NoCall]
    /\ usage = <<>>
    /\ boot = Listening

NextHandler ==
    \/ \E limitInput \in LimitInputs : Invoke(1, limitInput)
    \/ \E outcome \in FetchOutcomes : FetchSettles(1, outcome)
    \/ \E outcome \in JsonOutcomes : JsonSettles(1, outcome)
    \/ \E outcome \in ForwardOutcomes : ForwardSettles(1, outcome)
    \/ Rest(1)

SpecHandler == InitHandler /\ [][NextHandler]_vars

\* ----------------------------------------------- the handler, normalizing
\* raw entries as feeds hold them
RawKinds ==
    {With(With(With(With(Entry(<<"Alpha">>), "summary", String(<<"First", " ", "summary">>)),
                    "url", String(<<"https:", "//", "daydreams.systems", "/", "alpha">>)),
               "source", String(<<"blog">>)),
          "publishedAt", String(<<"2024-01-02">>)),
     With(With(With(Raw("object"), "headline", String(<<" ", "Beta", " ">>)),
               "summary", String(<<" ">>)),
          "description", String(<<" ", "described", " ">>)),
     With(With(With(Raw("object"), "name", String(<<"Gamma">>)),
               "publishedAt", String(<<"yesterday">>)),
          "date", String(<<"2024-01-02">>)),
     With(With(With(With(Entry(<<"Delta">>), "summary", String(<<>>)),
                    "url", String(<<" ">>)),
               "source", Number(7, 0)),
          "timestamp", String(<<" ", "Tue, 02 Jan 2024 10:30:00 GMT">>)),
     Untitled,
     With(With(Raw("object"), "title", String(<<" ", " ">>)), "headline", String(<<>>)),
     Raw("null"),
     Raw("string")}

\* the arrays of at most n raw entries
Arrays(n) == UNION {[1..k -> RawKinds] : k \in 0..n}

\* a field of the payload: missing, not an array, or an array of its own
FieldValues(name) ==
    {NoValue, Some(JsonOther("string")), Some(JsonArray(<<Entry(<<"from ", name>>)>>))}

NormalizePayloads ==
    {[Json("array") EXCEPT !.elems = e] : e \in Arrays(MaxEntries)}
    \cup {[Json("object") EXCEPT !.items = i, !.articles = a, !.data = d, !.results = r] :
            i \in FieldValues("items"), a \in FieldValues("articles"),
            d \in FieldValues("data"), r \in FieldValues("results")}
    \cup {Json("null"), Json("string")}

InitNormalize ==
    /\ now = 0
    /\ env = DefaultEnv
    /\ rateLimitMap = [k \in Keys |-> NoValue]
    /\ bulk = NoBulk
    /\ reqs = [s \in Slots |-> Idle]
    /\ ghost = [k \in Keys |-> NoWindow]
    /\ HandlerAtRest

NextNormalize ==
    \/ \E limit \in 1..10 : Invoke(1, Number(limit, 0))
    \/ FetchSettles(1, FetchResolves(200))
    \/ \E payload \in NormalizePayloads : JsonSettles(1, JsonResolves(payload))
    \/ Rest(1)

SpecNormalize == InitNormalize /\ [][NextNormalize]_vars

\* ------------------------------------------------ the handler, truncating
\* n times the character c
Repeat(c, n) == [i \in 1..n |-> c]

\* summaries of 595 to 600 + MaxBlanks + MaxTail characters, one token per
\* character: a word, up to MaxBlanks blanks, and a word of up to MaxTail letters
SummaryTexts ==
    {Repeat("x", a) \o Repeat(" ", b) \o Repeat("y", c) :
        a \in 594..600, b \in 0..MaxBlanks, c \in 1..MaxTail}

TruncatePayloads ==
    {[Json("array") EXCEPT !.elems = <<With(Entry(<<"Alpha">>), "summary", String(text))>>] :
        text \in SummaryTexts}

NextTruncate ==
    \/ Invoke(1, Undefined)
    \/ FetchSettles(1, FetchResolves(200))
    \/ \E payload \in TruncatePayloads : JsonSettles(1, JsonResolves(payload))
    \/ Rest(1)

SpecTruncate == InitNormalize /\ [][NextTruncate]_vars

\* ---------------------------------------- the handler, failing, two at once
\* two invocations in flight, the generation configured, and at each await
\* the ways it fails next to one way it succeeds
FailingCfgs ==
    {[DAYDREAMS_NEWS_URL |-> NoValue, ax |-> Some("llm")],
     [DAYDREAMS_NEWS_URL |->
          Some(HttpsTo(<<"1", "0", ".", "0", ".", "0", ".", "5">>)),
      ax |-> Some("llm")]}

FailingPayloads ==
    {[Json("array") EXCEPT !.elems = Feed(1)], [Json("array") EXCEPT !.elems = <<>>]}

FailingForwards ==
    {o \in ForwardOutcomes :
        \/ o.settled = "rejected"
        \/ o.summary # NoValue /\ o.model # NoValue /\ o.highlights = JsonArray(Bullets(3))}

InitFailing ==
    /\ now = 0
    /\ env = DefaultEnv
    /\ rateLimitMap = [k \in Keys |-> NoValue]
    /\ bulk = NoBulk
    /\ reqs = [s \in Slots |-> Idle]
    /\ ghost = [k \in Keys |-> NoWindow]
    /\ cfg \in FailingCfgs
    /\ calls = [h \in Slots |-> NoCall]
    /\ usage = <<>>
    /\ boot = Listening

NextFailing ==
    \/ \E h \in Slots : Invoke(h, Undefined)
    \/ \E h \in Slots : \E outcome \in FetchOutcomes : FetchSettles(h, outcome)
    \/ \E h \in Slots :
          \E outcome \in {JsonRejects} \cup {JsonResolves(p) : p \in FailingPayloads} :
              JsonSettles(h, outcome)
    \/ \E h \in Slots : \E outcome \in FailingForwards : ForwardSettles(h, outcome)
    \/ \E h \in Slots : Rest(h)

SpecFailing == InitFailing /\ [][NextFailing]_vars

\* ------------------------------------ the handler, two runs of the flow
\* invocations in flight at once with the generation configured, a feed that
\* answers with one entry, and a flow whose runs log their usage or not and
\* resolve or reject
SharedForwards ==
    {o \in ForwardOutcomes :
        \/ o.settled = "rejected" /\ o.error.message = <<"socket hang up">>
        \/ o.summary # NoValue /\ o.highlights = JsonArray(Bullets(3))}

InitShared ==
    /\ now = 0
    /\ env = DefaultEnv
    /\ rateLimitMap = [k \in Keys |-> NoValue]
    /\ bulk = NoBulk
    /\ reqs = [s \in Slots |-> Idle]
    /\ ghost = [k \in Keys |-> NoWindow]
    /\ cfg = [DefaultCfg EXCEPT !.ax = Some("llm")]
    /\ calls = [h \in Slots |-> NoCall]
    /\ usage = <<>>
    /\ boot = Listening

NextShared ==
    \/ \E h \in Slots : Invoke(h, Undefined)
    \/ \E h \in Slots : FetchSettles(h, FetchResolves(200))
    \/ \E h \in Slots : JsonSettles(h, JsonResolves([Json("array") EXCEPT !.elems = Feed(1)]))
    \/ \E h \in Slots : ForwardLogs(h, "gpt-5")
    \/ \E h \in Slots : \E outcome \in SharedForwards : ForwardSettles(h, outcome)
    \/ \E h \in Slots : Rest(h)

SpecShared == InitShared /\ [][NextShared]_vars

\* ------------------------------------- the handler against a silent world
\* one invocation at a time while the clock runs: the feed may answer, fail
\* or stay silent, the body may arrive or never finish, the generation may
\* return or never return.  The clock moves in steps just short of and equal
\* to the timeout, and stops at MaxTime; an invocation starts only while the
\* clock can still pass the deadline of its timer.
WaitSteps == {REQUEST_TIMEOUT_MS - 1, REQUEST_TIMEOUT_MS}

Wait ==
    /\ \E d \in WaitSteps :
          /\ now + d <= MaxTime
          /\ now' = now + d
    /\ UNCHANGED <<env, rateLimitMap, bulk, reqs, ghost>>
    /\ UNCHANGED <<handlerVars, serverVars>>

LiveCfgs == {DefaultCfg, [DefaultCfg EXCEPT !.ax = Some("llm")]}

LiveFetches == {o \in FetchOutcomes : o.name # "AbortError"}

InitLive ==
    /\ now = 0
    /\ env = DefaultEnv
    /\ rateLimitMap = [k \in Keys |-> NoValue]
    /\ bulk = NoBulk
    /\ reqs = [s \in Slots |-> Idle]
    /\ ghost = [k \in Keys |-> NoWindow]
    /\ cfg \in LiveCfgs
    /\ calls = [h \in Slots |-> NoCall]
    /\ usage = <<>>
    /\ boot = Listening

NextLive ==
    \/ now + 2 * REQUEST_TIMEOUT_MS <= MaxTime /\ Invoke(1, Undefined)
    \/ \E outcome \in LiveFetches : FetchSettles(1, outcome)
    \/ TimeoutFires(1)
    \/ \E outcome \in {JsonRejects} \cup {JsonResolves(p) : p \in FailingPayloads} :
          JsonSettles(1, outcome)
    \/ \E outcome \in FailingForwards : ForwardSettles(1, outcome)
    \/ Rest(1)
    \/ Wait

\* what the runtime guarantees: time passes, a due timer's callback runs, and
\* a settled invocation is delivered; nothing obliges the feed or the
\* generation to answer
SpecLive ==
    /\ InitLive
    /\ [][NextLive]_vars
    /\ WF_vars(Wait)
    /\ WF_vars(TimeoutFires(1))
    /\ WF_vars(Rest(1))

\* ------------------------------------------------ start-up: the port scan
\* Number(text) of a string of digits with blanks around it; {} is NaN
NumberOf(text) ==
    LET t == trim(text) IN
    IF t = <<>> THEN Some(0)
    ELSE IF LeadingDigits(t) = t THEN Some(DecimalValue(t))
    ELSE NoValue

\* a string is truthy when it is there and not empty
Truthy(value) == value # NoValue /\ Value(value) # <<>>

\* const DEFAULT_PORT = Number(process.env.PREFERRED_PORT ?? 8787)
DEFAULT_PORT(penv) ==
    IF penv.PREFERRED_PORT # NoValue THEN NumberOf(Value(penv.PREFERRED_PORT))
    ELSE Some(8787)

\* Number(envPort ?? DEFAULT_PORT), and the start port chosen from it
ParsedPort(penv) ==
    IF penv.PORT # NoValue THEN NumberOf(Value(penv.PORT)) ELSE DEFAULT_PORT(penv)

StartPort(penv) ==
    IF ParsedPort(penv) # NoValue THEN Value(ParsedPort(penv))
    ELSE Value(DEFAULT_PORT(penv))

\* RAILWAY_PROJECT_ID, RAILWAY_ENVIRONMENT and CI count alike: CI stands for
\* the three
ForcePort(penv) ==
    /\ Truthy(penv.PORT)
    /\ \/ Truthy(penv.CI)
       \/ penv.FORCE_PORT = Some(<<"true">>)

\* (a scan that goes on after every error)
RetryableAlways(forcePort, code) == TRUE

\* line 108 of index.ts: !forcePort && err?.code === "EADDRINUSE"
Retryable(forcePort, code) == ~forcePort /\ code = "EADDRINUSE"

\* one turn of the while loop: Bun.serve returns a server, or throws an error
\* with a code, or throws a value without one (code "none")
Serve(outcome) ==
    /\ boot.phase = "loop"
    /\ boot.attemptsLeft > 0
    /\ LET tried == Append(boot.tried, boot.attemptPort)
           caught == [boot EXCEPT !.tried = tried, !.lastError = Some(outcome),
                                  !.failed = Append(@, outcome)]
           next == [caught EXCEPT !.attemptsLeft = @ - 1, !.attemptPort = @ + 1]
       IN  boot' =
             IF outcome = "listening"
             THEN [boot EXCEPT !.phase = "returned", !.tried = tried,
                               !.port = Some(boot.attemptPort)]
             ELSE IF Retryable(boot.forcePort, outcome)
             THEN IF next.attemptsLeft > 0 THEN next
                  ELSE [next EXCEPT !.phase = "thrown", !.thrown = next.lastError]
             ELSE [caught EXCEPT !.phase = "thrown", !.thrown = Some(outcome)]
    /\ UNCHANGED <<gateVars, handlerVars>>

\* PORT unset, empty, "8080", "abc", "65530"; PREFERRED_PORT unset or "9000"
Ports ==
    {NoValue, Some(<<>>), Some(<<"8", "0", "8", "0">>), Some(<<"abc">>),
     Some(<<"6", "5", "5", "3", "0">>)}

ProcessEnvs ==
    [PORT : Ports,
     PREFERRED_PORT : {NoValue, Some(<<"9", "0", "0", "0">>)},
     CI : {NoValue, Some(<<"1">>)},
     FORCE_PORT : {NoValue, Some(<<"true">>), Some(<<"false">>)}]

ServeOutcomes == {"listening", "EADDRINUSE", "EACCES", "none"}

InitServer ==
    /\ now = 0
    /\ env = DefaultEnv
    /\ rateLimitMap = [k \in Keys |-> NoValue]
    /\ bulk = NoBulk
    /\ reqs = [s \in Slots |-> Idle]
    /\ ghost = [k \in Keys |-> NoWindow]
    /\ cfg = DefaultCfg
    /\ calls = [h \in Slots |-> NoCall]
    /\ usage = <<>>
    /\ \E penv \in ProcessEnvs : boot = Scan(StartPort(penv), ForcePort(penv))

NextServer == \E outcome \in ServeOutcomes : Serve(outcome)

\* Bun.serve is a synchronous call: it returns or throws
SpecServer == InitServer /\ [][NextServer]_vars /\ WF_vars(NextServer)

\* ------------------------------------------------------------------ claims
Min(a, b) == IF a <= b THEN a ELSE b

NonPayment(s) == reqs[s].pc # "idle" /\ ~isPaymentRequest(reqs[s].req)

\* the step in which slot s runs the rate-limit middleware on a counted request
RateStep(s) ==
    /\ reqs[s].pc = "rateLimit"
    /\ reqs'[s].pc # "rateLimit"
    /\ ~isPaymentRequest(reqs[s].req)

\* C1: in a window opened by a key's first non-payment request, exactly the
\* first RATE_LIMIT_MAX_REQUESTS requests are admitted and every later one is
\* rejected, with status 429: of the n requests seen so far in the window,
\* min(n, 100) were admitted, and a request is answered 429 exactly when the
\* limiter rejected it.
C1_FirstHundredAdmitted ==
    /\ \A k \in Keys :
          ghost[k].admitted = Min(ghost[k].seen, RATE_LIMIT_MAX_REQUESTS)
    /\ \A s \in Slots :
          /\ reqs[s].rl = "rejected" <=> reqs[s].status = 429
          /\ reqs[s].rl = "rejected" =>
                /\ reqs[s].pc = "done"
                /\ ghost[reqs[s].req.key].seen > RATE_LIMIT_MAX_REQUESTS

\* the 101st request of a key's first window has just been answered 429
C1_Witness ==
    /\ ghost["k1"].gen = 1
    /\ ghost["k1"].seen = RATE_LIMIT_MAX_REQUESTS + 1
    /\ ghost["k1"].admitted = RATE_LIMIT_MAX_REQUESTS
    /\ reqs[1].pc = "done" /\ reqs[1].status = 429 /\ NonPayment(1)

\* C2: a non-payment request that arrives after its key's window has expired
\* is admitted, whatever the old count, and leaves a record with count 1 and
\* a reset time one window after its arrival; in the new window the stored
\* count is the number admitted, which never exceeds the quota (99 further
\* requests are admitted, the next is rejected).
C2_RolloverResetsToOne ==
    [][\A s \in Slots : \A k \in Keys :
          /\ (RateStep(s) /\ reqs[s].req.key = k /\ ghost[k].open /\ now > ghost[k].end)
                => /\ reqs'[s].rl = "admitted"
                   /\ rateLimitMap'[k] =
                         Some([count |-> 1, resetAt |-> now + RATE_LIMIT_WINDOW_MS])
          /\ (ghost'[k].gen = 2 /\ rateLimitMap'[k] # NoValue
                 /\ Value(rateLimitMap'[k]).resetAt = ghost'[k].end)
                => /\ Value(rateLimitMap'[k]).count = ghost'[k].admitted
                   /\ ghost'[k].admitted
                         = Min(ghost'[k].seen, RATE_LIMIT_MAX_REQUESTS)
      ]_vars

\* after an exhausted window, the new window has admitted the request that
\* opened it and 99 more, and has rejected the one after those
C2_Witness ==
    /\ ghost["k1"].gen = 2
    /\ ghost["k1"].afterFull
    /\ ghost["k1"].seen = RATE_LIMIT_MAX_REQUESTS + 1
    /\ ghost["k1"].admitted = RATE_LIMIT_MAX_REQUESTS
    /\ rateLimitMap["k1"] = Some([count |-> RATE_LIMIT_MAX_REQUESTS,
                                  resetAt |-> ghost["k1"].end])
    /\ reqs[1].status = 429


\* C3: under every interleaving of the requests in flight, no update of the
\* table is lost: while a key's window is open its record holds exactly the
\* number of requests admitted in that window, and that number never exceeds
\* the quota.
C3_NoLostUpdate ==
    \A k \in Keys :
       /\ ghost[k].admitted <= RATE_LIMIT_MAX_REQUESTS
       /\ WindowOpenAt(ghost[k], now) =>
             rateLimitMap[k] = Some([count |-> ghost[k].admitted,
                                     resetAt |-> ghost[k].end])

\* two requests of one key in flight together: one admitted as the 100th and
\* still in the chain, the other already rejected
C3_Witness ==
    /\ NonPayment(1) /\ NonPayment(2)
    /\ reqs[1].req.key = reqs[2].req.key
    /\ reqs[1].pc = "sizeLimit" /\ reqs[1].rl = "admitted"
    /\ reqs[2].rl = "rejected"
    /\ Value(rateLimitMap[reqs[1].req.key]).count = RATE_LIMIT_MAX_REQUESTS

\* a step of slot s that handles (or receives) a payment-related request
PaymentStep(s) ==
    /\ reqs'[s] # reqs[s]
    /\ \/ reqs[s].pc # "idle" /\ isPaymentRequest(reqs[s].req)
       \/ reqs'[s].pc # "idle" /\ isPaymentRequest(reqs'[s].req)

\* C4: a payment-related request is never rejected by the rate limiter, and no
\* step of its handling creates or changes a record of the table.
C4_PaymentExempt ==
    [][\A s \in Slots :
          PaymentStep(s) =>
             /\ rateLimitMap' = rateLimitMap
             /\ bulk' = bulk
             /\ reqs'[s].status # 429
             /\ reqs'[s].rl # "rejected"
      ]_vars

\* a payment-related request got through the gate although its client's
\* quota was used up and a request beyond the quota had been rejected
C4_Witness ==
    \E s \in Slots :
       /\ reqs[s].pc = "routes"
       /\ isPaymentRequest(reqs[s].req)
       /\ reqs[s].rl = "exempt"
       /\ rateLimitMap[reqs[s].req.key] # NoValue
       /\ Value(rateLimitMap[reqs[s].req.key]).count = RATE_LIMIT_MAX_REQUESTS
       /\ ghost[reqs[s].req.key].seen > RATE_LIMIT_MAX_REQUESTS


\* slot s holds a request the rate-limit middleware has dealt with
PastRateLimit(s) == reqs[s].pc \in {"sizeLimit", "cors", "routes", "done"}

\* slot s holds a request the CORS middleware has dealt with
PastCors(s) == reqs[s].cors # "none"

\* C5: a request is handled as payment-related exactly when its path matches
\* the invocation route of the paid entrypoint or it carries an X-PAYMENT or an
\* X-Payment-Response header.
C5_PaymentClassification ==
    \A s \in Slots :
       PastRateLimit(s) =>
          (reqs[s].rl = "exempt"
             <=> \/ MatchesInvokeRoute(reqs[s].req.path)
                 \/ reqs[s].req.xPayment # NoValue
                 \/ reqs[s].req.xPaymentResponse # NoValue)

\* the origin equals or begins with the facilitator URL or one of the two
\* built-in gateway origins
IsGatewayOrigin(origin) ==
    \E g \in {FACILITATOR_URL, DefaultFacilitator, GatewayOrigin} :
       origin = g \/ startsWith(origin, g)

HttpsUrl(origin) ==
    Len(origin) >= 3 /\ origin[1] = "https:" /\ origin[2] = "//"

\* C6: for a non-payment request with an Origin that is no payment-gateway
\* origin, the origin is accepted only if it is a member of the allow-list
\* when one is configured, and exactly when it is a well-formed https URL
\* when none is.
C6_OriginAllowList ==
    \A s \in Slots :
       (/\ PastCors(s)
        /\ ~isPaymentRequest(reqs[s].req)
        /\ reqs[s].req.origin # <<>>
        /\ ~IsGatewayOrigin(reqs[s].req.origin))
       => IF ALLOWED_ORIGINS # <<>>
          THEN reqs[s].cors = "strict" => reqs[s].req.origin \in Range(ALLOWED_ORIGINS)
          ELSE reqs[s].cors = "strict" <=> HttpsUrl(reqs[s].req.origin)

\* C7: an origin that equals or begins with a payment-gateway origin is
\* accepted by isValidOrigin under every allow-list, for a payment-related and
\* for a non-payment request alike, and the CORS stage sets the headers for it.
C7_GatewayOriginsAccepted ==
    \A s \in Slots :
       (/\ reqs[s].pc # "idle"
        /\ reqs[s].req.origin # <<>>
        /\ IsGatewayOrigin(reqs[s].req.origin))
       => /\ isValidOrigin(reqs[s].req.origin, TRUE)
          /\ isValidOrigin(reqs[s].req.origin, FALSE)
          /\ PastCors(s) => reqs[s].cors \in {"payment", "strict"}

\* a non-payment request whose origin only begins with a gateway origin got
\* its CORS headers and went on to the routes, with an allow-list configured
\* that does not hold it
C7_Witness ==
    \E s \in Slots :
       /\ reqs[s].pc = "routes"
       /\ ~isPaymentRequest(reqs[s].req)
       /\ reqs[s].req.origin = GatewayOrigin \o EvilSuffix
       /\ ALLOWED_ORIGINS = <<AppOrigin>>
       /\ reqs[s].cors = "strict"

\* C8: isValidOrigin accepts an absent origin for a payment-related request
\* and refuses it for a non-payment one, and a payment-related request that
\* is no OPTIONS request and carries no Origin passes the CORS stage on to the
\* routes.
C8_PaymentBypassesOriginCheck ==
    /\ isValidOrigin(<<>>, TRUE)
    /\ ~isValidOrigin(<<>>, FALSE)
    /\ \A s \in Slots :
          /\ (reqs[s].pc # "idle" /\ reqs[s].req.origin = <<>>)
                => (isValidOrigin(reqs[s].req.origin, isPaymentRequest(reqs[s].req))
                       <=> isPaymentRequest(reqs[s].req))
          /\ (/\ PastCors(s)
              /\ isPaymentRequest(reqs[s].req)
              /\ reqs[s].req.origin = <<>>
              /\ reqs[s].req.method # "OPTIONS")
             => reqs[s].pc = "routes" /\ reqs[s].status = 0

\* a POST with an X-PAYMENT header and no Origin is past the gate
C8_Witness ==
    \E s \in Slots :
       /\ reqs[s].pc = "routes"
       /\ reqs[s].req.xPayment # NoValue
       /\ reqs[s].req.origin = <<>>
       /\ reqs[s].req.method = "POST"
       /\ reqs[s].cors = "unset"

\* the Content-Length of slot s, read as a decimal number ({} if it is none)
DeclaredLength(s) ==
    IF reqs[s].req.contentLength = NoValue THEN NoValue
    ELSE parseInt(Value(reqs[s].req.contentLength))

Finished(s) == reqs[s].pc \in {"routes", "done"}

\* C9, as claimed: every request declaring more than 1 MiB is rejected with
\* 413 and never reaches the routes, and no request declaring at most 1 MiB,
\* or no length, is rejected by the size gate.
C9_SizeGate ==
    \A s \in Slots :
       Finished(s) =>
          /\ (DeclaredLength(s) # NoValue /\ Value(DeclaredLength(s)) > MAX_REQUEST_SIZE)
                => reqs[s].status = 413 /\ reqs[s].pc = "done"
          /\ (\/ reqs[s].req.contentLength = NoValue
              \/ (DeclaredLength(s) # NoValue
                     /\ Value(DeclaredLength(s)) <= MAX_REQUEST_SIZE))
                => reqs[s].status # 413

\* C9, amended: a request over its quota is answered 429 before its size is
\* looked at; a request that reaches the size gate is rejected with 413, and
\* goes no further, exactly when its Content-Length is a non-empty text that
\* reads as no number, as a negative number or as more than 1 MiB.
C9_SizeGateAmended ==
    \A s \in Slots :
       /\ reqs[s].rl = "rejected" => reqs[s].status = 429
       /\ (reqs[s].pc \in {"cors", "routes", "done"} /\ reqs[s].rl # "rejected")
             => /\ reqs[s].status = 413
                   <=> /\ reqs[s].req.contentLength # NoValue
                       /\ \/ DeclaredLength(s) = NoValue
                          \/ Value(DeclaredLength(s)) < 0
                          \/ Value(DeclaredLength(s)) > 1048576
                /\ reqs[s].status = 413 => reqs[s].pc = "done" /\ ~PastCors(s)

\* a request that reached the size gate declaring 1,048,577 bytes was
\* answered 413
C9_Witness ==
    \E s \in Slots :
       /\ reqs[s].status = 413
       /\ reqs[s].req.contentLength = Some(<<"1", "0", "4", "8", "5", "7", "7">>)
       /\ reqs[s].rl \in {"admitted", "exempt"}

\* C10, as claimed: every OPTIONS request ends in the gate with status 204.
C10_PreflightNoContent ==
    \A s \in Slots :
       (Finished(s) /\ reqs[s].req.method = "OPTIONS")
          => reqs[s].pc = "done" /\ reqs[s].status = 204

\* C10, amended: no OPTIONS request reaches the routes; it ends in the gate,
\* with 429 if the rate limiter rejected it, else with 413 if the size gate
\* did, else with 403 if it is a non-payment request whose Origin is not
\* valid, and with 204 in every other case.
C10_PreflightEndsInGate ==
    \A s \in Slots :
       (Finished(s) /\ reqs[s].req.method = "OPTIONS")
          => /\ reqs[s].pc = "done"
             /\ reqs[s].status =
                   IF reqs[s].rl = "rejected" THEN 429
                   ELSE IF TooLarge(reqs[s].req.contentLength) THEN 413
                   ELSE IF /\ ~isPaymentRequest(reqs[s].req)
                           /\ reqs[s].req.origin # <<>>
                           /\ ~isValidOrigin(reqs[s].req.origin, FALSE)
                        THEN 403
                   ELSE 204

\* a preflight of a non-payment request with a valid origin, answered 204
\* after its CORS headers were set
C10_Witness ==
    \E s \in Slots :
       /\ reqs[s].req.method = "OPTIONS"
       /\ reqs[s].pc = "done" /\ reqs[s].status = 204
       /\ reqs[s].cors = "strict"
       /\ ~isPaymentRequest(reqs[s].req)

\* ------------------------------------------------- claims on the handler
Active(h) == calls[h].pc # "rest"

\* the parts of a text between its dots
RECURSIVE SplitAtDots(_)
SplitAtDots(text) ==
    LET dots == {i \in DOMAIN text : text[i] = "."}
    IN  IF dots = {} THEN <<text>>
        ELSE LET first == CHOOSE i \in dots : \A j \in dots : i <= j
             IN  <<SubSeq(text, 1, first - 1)>>
                 \o SplitAtDots(SubSeq(text, first + 1, Len(text)))

IsAddress(host) ==
    /\ Len(SplitAtDots(host)) = 4
    /\ \A i \in 1..4 : /\ SplitAtDots(host)[i] # <<>>
                       /\ \A j \in DOMAIN SplitAtDots(host)[i] :
                              IsDigit(SplitAtDots(host)[i][j])

Octet(host, i) == DecimalValue(SplitAtDots(host)[i])

\* 10/8, 172.16/12 and 192.168/16, by the numbers of the address
InPrivateRange(host) ==
    /\ IsAddress(host)
    /\ \/ Octet(host, 1) = 10
       \/ Octet(host, 1) = 172 /\ Octet(host, 2) >= 16 /\ Octet(host, 2) <= 31
       \/ Octet(host, 1) = 192 /\ Octet(host, 2) = 168

IsLoopbackOrUnspecified(host) ==
    \/ host = <<"localhost">>
    \/ IsAddress(host) /\ [i \in 1..4 |-> Octet(host, i)] \in {<<127, 0, 0, 1>>, <<0, 0, 0, 0>>}

\* the endpoints the claim forbids
ForbiddenTarget(url) ==
    \/ url[1] \in Schemes /\ url[1] # "https:"
    \/ /\ URL(url) # NoValue
       /\ \/ IsLoopbackOrUnspecified(Value(URL(url)).hostname)
          \/ InPrivateRange(Value(URL(url)).hostname)

InvalidTarget == Error("validateUrl", <<"Invalid endpoint URL">>)

\* C11: when the configured endpoint has a scheme other than https, or a host
\* name that is localhost, 127.0.0.1, 0.0.0.0 or an address inside 10/8,
\* 172.16/12 or 192.168/16, every invocation has failed with the invalid
\* endpoint error and has issued no fetch.
C11_UrlValidationPrecedesFetch ==
    \A h \in Slots :
        Active(h) /\ ForbiddenTarget(Endpoint) =>
            /\ calls[h].pc = "thrown"
            /\ calls[h].caught = InvalidTarget
            /\ calls[h].fetches = 0

\* an invocation has been refused for an endpoint inside a private range
C11_Witness ==
    \E h \in Slots :
        /\ calls[h].pc = "thrown" /\ calls[h].caught = InvalidTarget
        /\ calls[h].fetches = 0
        /\ URL(Endpoint) # NoValue /\ InPrivateRange(Value(URL(Endpoint)).hostname)

IsIntegerInput(limitInput) ==
    limitInput.type = "number" /\ limitInput.kind = "finite" /\ limitInput.tenths = 0

InRange(limitInput) ==
    IsIntegerInput(limitInput) /\ limitInput.int >= 1 /\ limitInput.int <= 10

Read(h) ==
    \/ calls[h].pc \in {"returned", "awaitForward"}
    \/ calls[h].pc = "thrown" /\ calls[h].caught.stage = "normalize"

NoItems == Error("normalize", <<"No news entries available">>)

IsArrayField(opt) == opt # NoValue /\ Value(opt).type = "array"

\* the collection the specification selects
SelectedCollection(payload) ==
    IF payload.type = "array" THEN payload.elems
    ELSE IF IsArrayField(payload.items) THEN Value(payload.items).elems
    ELSE IF IsArrayField(payload.articles) THEN Value(payload.articles).elems
    ELSE IF IsArrayField(payload.data) THEN Value(payload.data).elems
    ELSE IF IsArrayField(payload.results) THEN Value(payload.results).elems
    ELSE <<>>

\* a string with a character that is not white space
IsText(value) == value.type = "string" /\ \E i \in DOMAIN value.text : value.text[i] # " "

TitleFields == <<"title", "headline", "name">>

HasUsableTitle(raw) ==
    raw.type = "object" /\ \E i \in 1..3 : IsText(raw.fields[TitleFields[i]])

UsableTitle(raw) ==
    LET i == CHOOSE i \in 1..3 :
                 /\ IsText(raw.fields[TitleFields[i]])
                 /\ \A j \in 1..(i - 1) : ~IsText(raw.fields[TitleFields[j]])
    IN  trim(raw.fields[TitleFields[i]].text)

\* the first limit entries of the selected collection
FirstEntries(h) ==
    LET selected == SelectedCollection(calls[h].payload)
    IN  SubSeq(selected, 1, Min(calls[h].limit, Len(selected)))

RECURSIVE KeptTitles(_)
KeptTitles(raws) ==
    IF raws = <<>> THEN <<>>
    ELSE (IF HasUsableTitle(Head(raws)) THEN <<UsableTitle(Head(raws))>> ELSE <<>>)
         \o KeptTitles(Tail(raws))

Excluded(raws) == Cardinality({i \in DOMAIN raws : ~HasUsableTitle(raws[i])})

\* C13: the items come from the payload itself when it is an array, otherwise
\* from the first of its fields items, articles, data, results that holds an
\* array, a field that is missing or not an array being passed over; when
\* there is no such array the collection is empty and nothing is kept.
C13_CollectionPriority ==
    \A h \in Slots :
        Read(h) =>
            /\ \A i \in DOMAIN calls[h].items :
                   \E j \in DOMAIN SelectedCollection(calls[h].payload) :
                       /\ HasUsableTitle(SelectedCollection(calls[h].payload)[j])
                       /\ calls[h].items[i].title =
                              UsableTitle(SelectedCollection(calls[h].payload)[j])
            /\ (calls[h].items = <<>>) = (KeptTitles(FirstEntries(h)) = <<>>)

\* items was not an array, articles and results both were: the entry of
\* articles was kept
C13_Witness ==
    \E h \in Slots :
        /\ calls[h].pc = "returned"
        /\ calls[h].payload.type = "object"
        /\ calls[h].payload.items # NoValue /\ ~IsArrayField(calls[h].payload.items)
        /\ IsArrayField(calls[h].payload.articles)
        /\ IsArrayField(calls[h].payload.results)
        /\ Titles(calls[h].items) = <<<<"from ", "articles">>>>

\* C14: for every payload and every limit in 1..10 the normalization ends
\* with between 1 and limit items or with the no-entries failure, with the
\* failure exactly when no entry among the first limit has a usable title; a
\* result that is returned has at least one source.
C14_OneToLimitOrNoItems ==
    \A h \in Slots :
        Read(h) =>
            /\ calls[h].limit \in 1..10
            /\ \/ /\ calls[h].pc = "thrown" /\ calls[h].caught = NoItems
                  /\ calls[h].items = <<>>
               \/ /\ calls[h].pc # "thrown"
                  /\ Len(calls[h].items) >= 1 /\ Len(calls[h].items) <= calls[h].limit
            /\ (calls[h].pc = "thrown") =
                   (\A i \in DOMAIN FirstEntries(h) : ~HasUsableTitle(FirstEntries(h)[i]))
            /\ calls[h].pc = "returned" => Len(calls[h].output.sources) >= 1

\* a feed of as many entries as the bound allows, none of them usable, gave
\* the failure
C14_Witness ==
    \E h \in Slots :
        /\ calls[h].pc = "thrown" /\ calls[h].caught = NoItems
        /\ Len(SelectedCollection(calls[h].payload)) = MaxEntries
        /\ calls[h].limit >= MaxEntries

\* C15: the items are the entries with a usable title (title, headline or name)
\* among the first limit entries of the selected collection, in their order;
\* their number is the number of those first entries less the number without
\* a usable title, and no later entry takes the place of one that was dropped.
C15_CutThenDrop ==
    \A h \in Slots :
        Read(h) =>
            /\ Titles(calls[h].items) = KeptTitles(FirstEntries(h))
            /\ Len(calls[h].items) = Len(FirstEntries(h)) - Excluded(FirstEntries(h))

\* the first of the first two entries was dropped, a third usable entry was
\* beyond the limit, and one item was returned
C15_Witness ==
    \E h \in Slots :
        /\ calls[h].pc = "returned" /\ calls[h].limit = 2
        /\ Len(SelectedCollection(calls[h].payload)) = 3
        /\ ~HasUsableTitle(SelectedCollection(calls[h].payload)[1])
        /\ HasUsableTitle(SelectedCollection(calls[h].payload)[2])
        /\ HasUsableTitle(SelectedCollection(calls[h].payload)[3])
        /\ Len(calls[h].items) = 1

\* a text that is not empty and has no white space at either end
Trimmed(text) == text # <<>> /\ text[1] # " " /\ text[Len(text)] # " "

AbsentOrTrimmed(opt) == opt = NoValue \/ Trimmed(Value(opt))

DateFields == {"publishedAt", "published_at", "date", "timestamp"}

CanonicalTimestamps ==
    {<<"2024-01-02", "T", "00:00:00.000Z">>, <<"2024-01-02", "T", "10:30:00.000Z">>}

\* raw holds a date text that parses to the instant text is the canonical form of
DateOf(raw, text) ==
    /\ raw.type = "object"
    /\ \E f \in DateFields :
          /\ raw.fields[f].type = "string"
          /\ DateParse(trim(raw.fields[f].text)) # NoValue
          /\ DateParse(trim(raw.fields[f].text)) = DateParse(text)

\* C16: every item kept has a non-empty title without white space at either
\* end; its summary, url and source are each absent or non-empty and trimmed;
\* its publishedAt is absent or the canonical timestamp of a date text of one
\* of the entries that parsed as a date.
C16_ItemsWellFormed ==
    \A h \in Slots :
        \A i \in DOMAIN calls[h].items :
            LET item == calls[h].items[i]
            IN  /\ Trimmed(item.title)
                /\ AbsentOrTrimmed(item.summary)
                /\ AbsentOrTrimmed(item.url)
                /\ AbsentOrTrimmed(item.source)
                /\ \/ item.publishedAt = NoValue
                   \/ /\ Value(item.publishedAt) \in CanonicalTimestamps
                      /\ \E j \in DOMAIN FirstEntries(h) :
                             DateOf(FirstEntries(h)[j], Value(item.publishedAt))

\* an entry whose headline and description had white space around them and
\* whose summary was blank, kept with both trimmed; an entry whose first date
\* text did not parse, kept without publishedAt; an entry with "2024-01-02",
\* kept with the canonical timestamp
C16_Witness ==
    \E h \in Slots :
        /\ calls[h].pc = "returned" /\ Len(calls[h].items) = 3
        /\ calls[h].items[1].title = <<"Beta">>
        /\ calls[h].items[1].summary = Some(<<"described">>)
        /\ calls[h].items[2].title = <<"Gamma">>
        /\ calls[h].items[2].publishedAt = NoValue
        /\ calls[h].items[3].publishedAt = Some(<<"2024-01-02", "T", "00:00:00.000Z">>)

\* the articles text of an invocation that kept one item with a title of one
\* token and a summary: "1. <title>\nSummary: <text>"; its head, and the text
HasSummaryLine(h) ==
    /\ Read(h) /\ Len(calls[h].items) = 1
    /\ calls[h].items[1].summary # NoValue
    /\ SubSeq(calls[h].articles, 1, 5) =
           <<"1", ". ">> \o calls[h].items[1].title \o <<"\n", "Summary: ">>

SummaryGiven(h) == Value(calls[h].items[1].summary)
SummaryLine(h) == SubSeq(calls[h].articles, 6, Len(calls[h].articles))

EndsInEllipsis(text) ==
    Len(text) >= 3 /\ SubSeq(text, Len(text) - 2, Len(text)) = <<".", ".", ".">>

\* C17 as stated: a summary of more than 600 characters is given to the
\* generation as exactly 600 characters ending in "...", a summary of 600
\* characters or fewer unchanged.
C17_TruncateExactly600 ==
    \A h \in Slots :
        HasSummaryLine(h) =>
            IF length(SummaryGiven(h)) > 600
            THEN length(SummaryLine(h)) = 600 /\ EndsInEllipsis(SummaryLine(h))
            ELSE SummaryLine(h) = SummaryGiven(h)

\* C17 amended: a summary of 600 characters or fewer is unchanged; a longer
\* one becomes its first 597 characters without the white space at their
\* end, followed by "...": at most 600 characters, and exactly 600 when the
\* 597th character is not white space.
C17_TruncateAtMost600 ==
    \A h \in Slots :
        HasSummaryLine(h) =>
            IF length(SummaryGiven(h)) > 600
            THEN LET kept == SubSeq(SummaryLine(h), 1, Len(SummaryLine(h)) - 3)
                 IN  /\ EndsInEllipsis(SummaryLine(h))
                     /\ length(SummaryLine(h)) <= 600
                     /\ kept = SubSeq(SummaryGiven(h), 1, Len(kept))
                     /\ kept = <<>> \/ kept[Len(kept)] # " "
                     /\ \A i \in (Len(kept) + 1)..597 : SummaryGiven(h)[i] = " "
                     /\ SummaryGiven(h)[597] # " " => length(SummaryLine(h)) = 600
            ELSE SummaryLine(h) = SummaryGiven(h)

\* a summary of 601 characters with a blank as its 597th, cut to fewer than
\* 600 characters
C17_Witness ==
    \E h \in Slots :
        /\ HasSummaryLine(h)
        /\ length(SummaryGiven(h)) = 601
        /\ SummaryGiven(h)[597] = " "
        /\ length(SummaryLine(h)) < 600
        /\ EndsInEllipsis(SummaryLine(h))

\* the titles, each but the last followed by "; "
RECURSIVE Listed(_)
Listed(titles) ==
    IF Len(titles) = 0 THEN <<>>
    ELSE IF Len(titles) = 1 THEN titles[1]
    ELSE titles[1] \o <<"; ">> \o Listed(Tail(titles))

C19_HighlightsAtMostFive ==
    \A h \in Slots :
        (cfg.ax # NoValue /\ calls[h].pc = "returned") =>
            Len(calls[h].output.highlights) <= 5

GenericMessages == {ExternalServiceUnavailable, InvalidResponseFormat, InternalServerError}

\* the text of the message holds the raw message of what was caught, the host
\* of the endpoint, or the status of the response
Leaks(message, caught) ==
    \/ caught.stage = "forward" /\ caught.message # <<>> /\ includes(message, caught.message)
    \/ URL(Endpoint) # NoValue /\ includes(message, Value(URL(Endpoint)).hostname)
    \/ includes(message, <<"503">>)

\* C20: every invocation that failed threw one of the fixed generic messages,
\* a message that holds nothing of the raw exception text, the endpoint or the
\* status, and two invocations that failed at the same stage threw the same
\* message.
C20_GenericFailure ==
    \A h \in Slots :
        calls[h].pc = "thrown" =>
            /\ calls[h].thrown \in GenericMessages
            /\ ~Leaks(calls[h].thrown, calls[h].caught)
            /\ \A g \in Slots :
                   (calls[g].pc = "thrown" /\ calls[g].caught.stage = calls[h].caught.stage)
                       => calls[g].thrown = calls[h].thrown

\* the kind of a failure the handler caught: the feed's transport failure or
\* non-success status, its unparseable body, its lack of usable entries; the
\* timeout and every other failure are of no designated kind
FailureKind(caught) ==
    CASE caught.stage = "fetch" /\ caught.message # <<"Request timeout">> -> "unavailable"
      [] caught.stage = "status"    -> "unavailable"
      [] caught.stage = "json"      -> "format"
      [] caught.stage = "normalize" -> "noItems"
      [] OTHER                      -> "other"

\* the class of outward message each kind of failure is designated to leave
\* the handler with
DesignatedMessages(kind) ==
    CASE kind = "unavailable" -> { ExternalServiceUnavailable }
      [] kind = "format"      -> { InvalidResponseFormat }
      [] kind = "noItems"     -> { ExternalServiceUnavailable, <<"No news entries available">> }
      [] OTHER                -> GenericMessages

\* C21: every invocation that failed threw the message designated for the kind
\* of its failure: a transport failure or a status that is not a success,
\* "External service unavailable"; a body that does not parse, "Invalid
\* response format"; a feed with no usable entry, the external-service or
\* no-entries class; "Internal server error" only for failures of no
\* designated kind.
C21_FailureClasses ==
    \A h \in Slots :
        calls[h].pc = "thrown" =>
            /\ calls[h].thrown \in DesignatedMessages(FailureKind(calls[h].caught))
            /\ calls[h].thrown = InternalServerError
                   => FailureKind(calls[h].caught) = "other"

\* an invocation has entered the handler and has not ended yet
InHandler(h) == calls[h].pc \in {"awaitFetch", "awaitJson", "awaitForward"}
Ended(h) == calls[h].pc \in {"returned", "thrown"}

\* C22: every invocation that has entered the handler ends, returning or
\* failing, even when the feed never answers, never finishes its body, or the
\* generation never returns.
C22_EveryRequestEnds == \A h \in Slots : InHandler(h) ~> Ended(h)

\* why the waits for the body and for the generation are not bounded: no
\* timer of the invocation is pending while it waits there, so nothing but
\* the feed's or the generation's own answer can end the wait
NoTimerPastFetch ==
    \A h \in Slots :
        calls[h].pc \in {"awaitJson", "awaitForward"} => calls[h].timer = NoValue

\* the part of it that the abort timer does give: the wait for the feed's
\* answer ends, and a fetch whose timer came due fails as a timeout
FetchTimeBounded == \A h \in Slots : calls[h].pc = "awaitFetch" ~> calls[h].pc # "awaitFetch"

\* the model a result reports when it depends on the invocation's own run of
\* the flow only: that of the last usage entry this run logged, if any
OwnModel(h) == LastModel(calls[h].logged)

\* C23: under every interleaving of invocations, the model metadata of every
\* generated result is that of the invocation's own run of the flow (of the
\* last usage entry this run logged, or none when it logged none), whatever
\* other invocations are in flight or came before.
C23_ResultOfOwnRunOnly ==
    \A h \in Slots :
        (calls[h].pc = "returned" /\ calls[h].forwards = 1)
            => calls[h].output.model = OwnModel(h)

\* the stage an invocation is in: Received and Validating are passed inside
\* the step that starts it, Normalizing inside the step that reads the body
StageOrder ==
    {<<"rest", "awaitFetch">>,          \* Received, Validating, then Fetching
     <<"awaitFetch", "awaitJson">>,     \* Fetching goes on with the body
     <<"awaitJson", "awaitForward">>,   \* Normalizing, then Summarizing
     <<"awaitJson", "returned">>,       \* Normalizing, scripted summary, Responding
     <<"awaitForward", "returned">>}    \* Summarizing, then Responding

FailedFrom == {<<"rest", "thrown">>, <<"awaitFetch", "thrown">>,
               <<"awaitJson", "thrown">>, <<"awaitForward", "thrown">>}

Delivered == {<<"returned", "rest">>, <<"thrown", "rest">>}

StageStep(h) ==
    LET before == calls[h]
        after  == calls'[h]
    IN  /\ \/ after.pc = before.pc
           \/ <<before.pc, after.pc>> \in StageOrder \cup FailedFrom \cup Delivered
        /\ after.fetches <= 1 /\ after.forwards <= 1
        /\ after.pc # "rest" => (after.fetches >= before.fetches /\ after.forwards >= before.forwards)
        /\ after.pc \in {"awaitFetch", "awaitJson"} => (after.fetches = 1 /\ after.forwards = 0)
        /\ after.pc = "awaitForward" => (after.fetches = 1 /\ after.forwards = 1 /\ after.items # <<>>)
        /\ after.pc = "returned" => (after.fetches = 1 /\ after.output.sources # <<>>)
        /\ before.pc \in {"returned", "thrown"} => after.pc \in {before.pc, "rest"}

OriginFails(s) ==
    /\ NonPayment(s)
    /\ reqs[s].req.origin # <<>>
    /\ ~isValidOrigin(reqs[s].req.origin, FALSE)

\* C25: every non-payment request, of any method, whose Origin header fails
\* the validation of origins and which the rate limiter and the size gate let
\* through is rejected by the gate (403) and never reaches the routes.
C25_OriginDenied ==
    \A s \in Slots :
       (Finished(s) /\ OriginFails(s) /\ reqs[s].status \notin {429, 413})
          => reqs[s].pc = "done" /\ reqs[s].status = 403

\* key k has a record whose window is still open
RecordOpen(k) == rateLimitMap[k] # NoValue /\ now <= Value(rateLimitMap[k]).resetAt

AdmitsWithoutSweep(k) ==
    \/ ~WindowOpenAt(ghost[k], now)
    \/ ghost[k].admitted < RATE_LIMIT_MAX_REQUESTS

\* some record of the table is deleted by this step
Deletes ==
    \/ \E k \in Keys : rateLimitMap[k] # NoValue /\ rateLimitMap'[k] = NoValue
    \/ bulk.n > 0 /\ bulk'.n = 0

\* C27: a step deletes records only when the table holds more than 10000 of
\* them, and never a record whose window is still open; and every decision of
\* checkRateLimit is the one the limiter without the sweep takes.
C27_SweepKeepsDecisions ==
    [][/\ Deletes => mapSize > CLEANUP_THRESHOLD
       /\ \A k \in Keys : RecordOpen(k) => rateLimitMap'[k] # NoValue
       /\ (bulk.n > 0 /\ now <= bulk.resetAt) => bulk'.n = bulk.n
       /\ \A s \in Slots : RateStep(s) =>
             (reqs'[s].rl = "admitted" <=> AdmitsWithoutSweep(reqs[s].req.key))
      ]_vars

\* a request of one client, whose own window is still open, has swept the
\* expired record of the other, whose next request has not come yet
C27_Witness ==
    \E k \in Keys :
       /\ rateLimitMap[k] = NoValue
       /\ ghost[k].open /\ now > ghost[k].end
       /\ \E other \in Keys \ {k} : RecordOpen(other)

\* the order of the gate's stages, and where a request can be answered
GateOrder ==
    {<<"idle", "rateLimit">>, <<"rateLimit", "sizeLimit">>, <<"rateLimit", "done">>,
     <<"sizeLimit", "cors">>, <<"sizeLimit", "done">>,
     <<"cors", "routes">>, <<"cors", "done">>,
     <<"routes", "idle">>, <<"done", "idle">>}

GateStep(s) ==
    LET before == reqs[s]
        after  == reqs'[s]
        k      == before.req.key
    IN  /\ after.pc # before.pc => <<before.pc, after.pc>> \in GateOrder
        \* rejected by the rate limiter: answered 429 there, size and origin
        \* never looked at
        /\ after.rl = "rejected" =>
              (after.pc = "done" /\ after.status = 429 /\ after.cors = "none")
        /\ <<before.pc, after.pc>> = <<"rateLimit", "done">> => after.rl = "rejected"
        \* rejected by the size gate: after the rate limiter, before CORS
        /\ <<before.pc, after.pc>> = <<"sizeLimit", "done">> =>
              (after.status = 413 /\ after.rl \in {"admitted", "exempt"}
                  /\ after.cors = "none")
        /\ (after.status \in {403, 204} /\ before.status = 0) => before.pc = "cors"
        \* admitted: counted in the key's record
        /\ (RateStep(s) /\ after.rl = "admitted") =>
              /\ ghost'[k].admitted =
                    IF WindowOpenAt(ghost[k], now) THEN ghost[k].admitted + 1 ELSE 1
              /\ Value(rateLimitMap'[k]).count = ghost'[k].admitted
        \* and nothing later in the gate gives the count back
        /\ (before.pc \in {"sizeLimit", "cors", "routes", "done"} /\ after # before) =>
              (rateLimitMap' = rateLimitMap /\ ghost' = ghost)

\* C28: the gate's stages run in the order rate limit, size check, CORS and
\* preflight.  A request the rate limiter rejects is answered 429 and is
\* never looked at for size or origin; every non-payment request it admits
\* is counted in its client's record, and stays counted when the request is
\* then answered 413, 403 or 204 without reaching the routes.
C28_GateOrder == [][\A s \in Slots : GateStep(s)]_vars

\* the request that used up the client's quota was answered 413, 403 or 204
\* by the gate
C28_Witness ==
    \E s \in Slots :
       /\ reqs[s].pc = "done" /\ reqs[s].status \in {413, 403, 204}
       /\ reqs[s].rl = "admitted"
       /\ Value(rateLimitMap[reqs[s].req.key]).count = RATE_LIMIT_MAX_REQUESTS
       /\ ghost[reqs[s].req.key].admitted = RATE_LIMIT_MAX_REQUESTS

\* ---------------------------------------------------- claims on start-up
ScanInvariant ==
    LET n == Len(boot.tried) IN
    /\ n <= (IF boot.forcePort THEN 1 ELSE PORT_SCAN_LIMIT)
    \* consecutive ports from the start port
    /\ \A i \in 1..n : boot.tried[i] = boot.startPort + i - 1
    \* a further attempt only after address-in-use, and never when forced
    /\ \A i \in 1..(n - 1) : boot.failed[i] = "EADDRINUSE" /\ ~boot.forcePort
    /\ boot.phase = "loop" => (Len(boot.failed) = n /\ boot.attemptsLeft > 0)
    \* returns the first port that binds
    /\ boot.phase = "returned" =>
          /\ n >= 1 /\ Len(boot.failed) = n - 1
          /\ boot.port = Some(boot.tried[n])
    \* throws the last error: at once when the port is forced or the error is
    \* not address-in-use, else after the 20th failure
    /\ boot.phase = "thrown" =>
          /\ n >= 1 /\ Len(boot.failed) = n
          /\ boot.thrown = Some(boot.failed[n])
          /\ \/ boot.forcePort /\ n = 1
             \/ boot.failed[n] # "EADDRINUSE"
             \/ n = PORT_SCAN_LIMIT
    /\ (boot.forcePort /\ boot.phase # "loop") => n = 1

\* C29: createServerWithFallback always ends, returning a port or throwing;
\* not forced, it tries at most PORT_SCAN_LIMIT consecutive ports from the
\* start port, going on only after address-in-use, and returns the first port
\* that binds or throws the last error after the 20th failure; forced, it
\* tries once; any other error is thrown at once.
C29_ScanTerminates == []ScanInvariant /\ <>(boot.phase \in {"returned", "thrown"})

\* the scan has thrown address-in-use after trying twenty ports
C29_Witness ==
    /\ boot.phase = "thrown"
    /\ ~boot.forcePort
    /\ Len(boot.tried) = PORT_SCAN_LIMIT
    /\ boot.thrown = Some("EADDRINUSE")
====
